---- MODULE Spec2Model ----
(***************************************************************************)
(* Model of metaflow_extensions/netflix_ext/plugins/conda/                 *)
(* conda_step_decorator.py: the decorator conflict gate run from           *)
(* step_init, placeholder substitution in environment names and the        *)
(* memoized dependency/source resolution of CondaStepDecorator and         *)
(* PipStepDecorator.                                                       *)
(***************************************************************************)
EXTENDS Integers, Sequences, FiniteSets, TLC

\* ------------------------------------------------------------------ bounds
\* Largest number of decorators attached to the step.
MaxDecos == 3
\* Number of step_init passes over the step (two when deploying to a scheduler).
MaxPasses == 2

\* ------------------------------------------------------------------ state
VARIABLES
    environment_TYPE,  \* environment.TYPE handed to step_init
    flow_decorators,   \* keys of flow._flow_decorators among conda_base, pip_base
    insts,             \* the decorator objects: id -> [TYPE, statically_defined, name]
    decorators,        \* step.decorators: the list of decorator ids, in declaration order
    pass,              \* number of the current step_init pass
    pass_start,        \* step.decorators when the current pass started
    calls,             \* ids whose step_init ran in the current pass, in call order
    results,           \* id -> outcome of its step_init in the current pass
    base_attributes,   \* id -> what self._base_attributes was set from
    last,              \* the most recent call of _resolve_pip_or_conda_deco
    err,               \* the exception that ended the run, if any
    \* sub_envvars_in_envname
    sub_name,          \* the name argument, a string as a sequence of characters
    os_environ,        \* os.environ: variable name -> value, None when not set
    addl_env,          \* the addl_env argument: variable name -> value, None when absent
    sub_result,        \* what the call returned or raised
    \* _resolve_deps_sources
    self_cls,              \* the class of the instance: "conda" or "pip"
    self_attributes,       \* self.attributes
    self_base_attributes,  \* self._base_attributes
    conda_registry,        \* what the registry holds for the alias of the step
    pinned_conda_libs,     \* what get_pinned_conda_libs returns
    self_memo,             \* _from_env, _env_type and the four _resolved_* fields
    collab_calls,          \* calls made so far to the collaborators
    resolve_log,           \* the calls of _resolve_deps_sources, in order
    \* step_init's checks of the attributes and the reads of an instance
    step_init_exc,         \* "pending", "none" or the error step_init raised
    read_log,              \* the calls of is_enabled, _python_version, from_env
    \* the lifecycle of one instance: step_init and the runtime hooks
    self_env_for_fetch,    \* self._env_for_fetch: variable name -> value
    self_from_env,         \* self._from_env: the environment kept, NoEnv for None
    self_is_remote,        \* self._is_remote
    life_registry,         \* the registry: alias -> environment
    life_phase,            \* how far the host is in the lifecycle of the step
    life_hist,             \* what the calls made so far have done
    life_last              \* the most recent lifecycle call

gateVars == <<environment_TYPE, flow_decorators, insts, decorators, pass, pass_start,
              calls, results, base_attributes, last, err>>

subVars == <<sub_name, os_environ, addl_env, sub_result>>

resolveVars == <<self_cls, self_attributes, self_base_attributes, conda_registry,
                 pinned_conda_libs, self_memo, collab_calls, resolve_log>>

instVars == <<step_init_exc, read_log>>

lifeVars == <<self_env_for_fetch, self_from_env, self_is_remote, life_registry, life_phase,
              life_hist, life_last>>

vars == <<gateVars, subVars, resolveVars, instVars, lifeVars>>

\* ------------------------------------------------------------------ values
NoErr == [exc |-> "none", at |-> "none"]

\* Decorator classes by name; name and TYPE are class attributes
\* (CondaStepDecorator: "conda"/"conda", PipStepDecorator: "pip"/"pip"); the
\* other names stand for classes extending one of the two.
CondaNames == {"conda", "conda_ext"}
PipNames == {"pip", "pip_ext"}

DecoObjects ==
    [TYPE : {"conda"}, statically_defined : BOOLEAN, name : CondaNames]
    \cup [TYPE : {"pip"}, statically_defined : BOOLEAN, name : PipNames]
    \cup [TYPE : {"other"}, statically_defined : {TRUE}, name : {"batch"}]

BaseNames == {"conda_base", "pip_base"}

\* ------------------------------------------------------------------ helpers
RECURSIVE Filter(_, _)
\* [x for x in s if x in keep]
Filter(s, keep) ==
    IF s = <<>> THEN <<>>
    ELSE IF Head(s) \in keep THEN <<Head(s)>> \o Filter(Tail(s), keep)
    ELSE Filter(Tail(s), keep)

Range(s) == {s[k] : k \in DOMAIN s}

\* isinstance(d, CondaStepDecorator)
IsCondaStepDecorator(d) == insts[d].TYPE \in {"conda", "pip"}

OfType(s, t) == Filter(s, {d \in Range(s) : insts[d].TYPE = t})
Static(s) == Filter(s, {d \in Range(s) : insts[d].statically_defined})
NotStatic(s) == Filter(s, {d \in Range(s) : ~insts[d].statically_defined})
NamesOf(s) == {insts[d].name : d \in Range(s)}

\* ------------------------------------------------------------------ the gate
\* _resolve_pip_or_conda_deco, lines 828-835: the instances of one kind kept
\* for arbitration.
ReduceDuplicates(decs) == IF Len(decs) > 1 THEN Static(decs) ELSE decs

\* lines 827-835: to_remove after the two duplicate reductions; the second
\* assignment replaces the first.
DuplicatesToRemove(conda_all, pip_all) ==
    IF Len(pip_all) > 1 THEN NotStatic(pip_all)
    ELSE IF Len(conda_all) > 1 THEN NotStatic(conda_all)
    ELSE <<>>

\* A mutant of NothingToArbitrate: "and" written for "or".
NothingToArbitrate_And(conda_decs, pip_decs) == Len(conda_decs) = 0 /\ Len(pip_decs) = 0

\* line 844
NothingToArbitrate(conda_decs, pip_decs) == Len(conda_decs) = 0 \/ Len(pip_decs) = 0

\* A mutant of ArbitrationError: the base-decorator checks made before the
\* check that both instances are user-authored.
ArbitrationError_BaseFirst(conda_decs, pip_decs, has_pip_base, has_conda_base) ==
    IF Len(conda_decs) > 1 THEN "MultipleConflictingDecorators"
    ELSE IF Len(pip_decs) > 1 THEN "MultipleConflictingDecorators"
    ELSE IF Len(conda_decs) = 0 \/ Len(pip_decs) = 0 THEN "IndexError"
    ELSE IF has_pip_base /\ insts[conda_decs[1]].statically_defined
        THEN "IncompatibleBaseDecorator"
    ELSE IF has_conda_base /\ insts[pip_decs[1]].statically_defined
        THEN "IncompatibleBaseDecorator"
    ELSE IF insts[conda_decs[1]].statically_defined /\ insts[pip_decs[1]].statically_defined
        THEN "ConflictingDecoratorKinds"
    ELSE "none"

\* lines 847-896: the exception raised for the instances left, "none" if none
\* (conda_decs[0] and pip_decs[0] of lines 864-865 raise IndexError on an
\* empty list).
ArbitrationError(conda_decs, pip_decs, has_pip_base, has_conda_base) ==
    IF Len(conda_decs) > 1 THEN "MultipleConflictingDecorators"
    ELSE IF Len(pip_decs) > 1 THEN "MultipleConflictingDecorators"
    ELSE IF Len(conda_decs) = 0 \/ Len(pip_decs) = 0 THEN "IndexError"
    ELSE IF insts[conda_decs[1]].statically_defined /\ insts[pip_decs[1]].statically_defined
        THEN "ConflictingDecoratorKinds"
    ELSE IF has_pip_base /\ insts[conda_decs[1]].statically_defined
        THEN "IncompatibleBaseDecorator"
    ELSE IF has_conda_base /\ insts[pip_decs[1]].statically_defined
        THEN "IncompatibleBaseDecorator"
    ELSE "none"

\* A mutant of DelDeco: the two branches exchanged.
DelDeco_Swapped(conda_deco, pip_deco, has_pip_base) ==
    IF insts[pip_deco].statically_defined \/ has_pip_base THEN pip_deco ELSE conda_deco

\* A mutant of DelDeco: "and" written for "or".
DelDeco_And(conda_deco, pip_deco, has_pip_base) ==
    IF insts[pip_deco].statically_defined /\ has_pip_base THEN conda_deco ELSE pip_deco

\* lines 903-905
DelDeco(conda_deco, pip_deco, has_pip_base) ==
    IF insts[pip_deco].statically_defined \/ has_pip_base THEN conda_deco ELSE pip_deco

\* line 909: self.name == last_deco.name
IsLastDeco(self, last_deco) == insts[self].name = insts[last_deco].name

\* line 912: self.name not in [d.name for d in to_remove]
GateReturn(self, to_remove) == insts[self].name \notin NamesOf(to_remove)

\* lines 910-911: decorators.remove(d) for d in to_remove
RemoveAll(decs, to_remove) == Filter(decs, Range(decs) \ Range(to_remove))

\* One call self._resolve_pip_or_conda_deco(flow, decs): what it returns or
\* raises, the list it leaves, and its to_remove and del_deco (0: not set).
GateOutcome(ret, exc, decs, to_remove, del_deco) ==
    [ret |-> ret, exc |-> exc, decorators |-> decs, to_remove |-> to_remove,
     del_deco |-> del_deco]

\* A mutant of ResolvePipOrCondaDeco: the duplicates are removed from the list
\* as soon as they are found, before the arbitration checks.
ResolvePipOrCondaDeco_RemoveFirst(self, flow_decos, decs) ==
    LET has_pip_base == "pip_base" \in flow_decos
        has_conda_base == "conda_base" \in flow_decos
        all_decs == Filter(decs, {d \in Range(decs) : IsCondaStepDecorator(d)})
        conda_all == OfType(all_decs, "conda")
        pip_all == OfType(all_decs, "pip")
        dups == DuplicatesToRemove(conda_all, pip_all)
        conda_decs == ReduceDuplicates(conda_all)
        pip_decs == ReduceDuplicates(pip_all)
        cleaned == RemoveAll(decs, dups)
    IN  IF all_decs = <<>> THEN GateOutcome(FALSE, "IndexError", decs, <<>>, 0)
        ELSE IF NothingToArbitrate(conda_decs, pip_decs)
            THEN GateOutcome(TRUE, "none", cleaned, dups, 0)
        ELSE LET exc == ArbitrationError(conda_decs, pip_decs, has_pip_base, has_conda_base)
             IN  IF exc # "none" THEN GateOutcome(FALSE, exc, cleaned, dups, 0)
                 ELSE LET del_deco == DelDeco(conda_decs[1], pip_decs[1], has_pip_base)
                          to_remove == Append(dups, del_deco)
                      IN  GateOutcome(GateReturn(self, to_remove), "none",
                                      RemoveAll(decs, to_remove), to_remove, del_deco)

ResolvePipOrCondaDeco(self, flow_decos, decs) ==
    LET has_pip_base == "pip_base" \in flow_decos
        has_conda_base == "conda_base" \in flow_decos
        all_decs == Filter(decs, {d \in Range(decs) : IsCondaStepDecorator(d)})
        conda_all == OfType(all_decs, "conda")
        pip_all == OfType(all_decs, "pip")
        dups == DuplicatesToRemove(conda_all, pip_all)
        conda_decs == ReduceDuplicates(conda_all)
        pip_decs == ReduceDuplicates(pip_all)
    IN  IF all_decs = <<>> THEN GateOutcome(FALSE, "IndexError", decs, <<>>, 0)
        ELSE IF NothingToArbitrate(conda_decs, pip_decs)
            THEN GateOutcome(TRUE, "none", decs, dups, 0)
        ELSE LET exc == ArbitrationError(conda_decs, pip_decs, has_pip_base, has_conda_base)
             IN  IF exc # "none" THEN GateOutcome(FALSE, exc, decs, dups, 0)
                 ELSE LET del_deco == DelDeco(conda_decs[1], pip_decs[1], has_pip_base)
                          to_remove == Append(dups, del_deco)
                          last_deco == all_decs[Len(all_decs)]
                      IN  GateOutcome(GateReturn(self, to_remove), "none",
                                      IF IsLastDeco(self, last_deco)
                                          THEN RemoveAll(decs, to_remove) ELSE decs,
                                      to_remove, del_deco)

\* ------------------------------------------------------------------ step_init
\* A mutant of GetBaseAttributes: the check for the other kind's base left out.
GetBaseAttributes_NoCheck(self, flow_decos) ==
    LET mine == IF insts[self].TYPE = "conda" THEN "conda_base" ELSE "pip_base"
    IN  IF mine \in flow_decos THEN [exc |-> "none", from |-> mine]
        ELSE [exc |-> "none", from |-> "defaults"]

\* _get_base_attributes of CondaStepDecorator (571-578) and of PipStepDecorator
\* (1035-1042): the exception raised, or where the attributes come from.
GetBaseAttributes(self, flow_decos) ==
    LET other == IF insts[self].TYPE = "conda" THEN "pip_base" ELSE "conda_base"
        mine == IF insts[self].TYPE = "conda" THEN "conda_base" ELSE "pip_base"
    IN  IF other \in flow_decos THEN [exc |-> "IncompatibleBaseDecorator", from |-> "unset"]
        ELSE IF mine \in flow_decos THEN [exc |-> "none", from |-> mine]
        ELSE [exc |-> "none", from |-> "defaults"]

\* step_init, lines 291-304: the outcome of one call for instance self:
\* "raised", "discarded" (the gate said not to continue) or "initialized".
StepInitOutcome(self, env_type, flow_decos, decs) ==
    IF env_type # "conda"
        THEN [outcome |-> "raised", err |-> [exc |-> "InvalidEnvironment", at |-> "step_init"],
              gate |-> GateOutcome(FALSE, "none", decs, <<>>, 0), gate_called |-> FALSE,
              from |-> "unset"]
    ELSE LET g == ResolvePipOrCondaDeco(self, flow_decos, decs)
         IN  IF g.exc # "none"
                 THEN [outcome |-> "raised",
                       err |-> [exc |-> g.exc, at |-> "_resolve_pip_or_conda_deco"],
                       gate |-> g, gate_called |-> TRUE, from |-> "unset"]
             ELSE IF ~g.ret
                 THEN [outcome |-> "discarded", err |-> NoErr, gate |-> g,
                       gate_called |-> TRUE, from |-> "unset"]
             ELSE LET b == GetBaseAttributes(self, flow_decos)
                  IN  IF b.exc # "none"
                          THEN [outcome |-> "raised",
                                err |-> [exc |-> b.exc, at |-> "_get_base_attributes"],
                                gate |-> g, gate_called |-> TRUE, from |-> "unset"]
                      ELSE [outcome |-> "initialized", err |-> NoErr, gate |-> g,
                            gate_called |-> TRUE, from |-> b.from]

NoCall == [self |-> 0, before |-> <<>>, called |-> FALSE, ret |-> FALSE, exc |-> "none",
           to_remove |-> <<>>, del_deco |-> 0, pass |-> 0, outcome |-> "pending"]

\* ------------------------------------------------------------------ Init
RECURSIVE SeqsUpTo(_, _)
\* all sequences over S of length 0..n
SeqsUpTo(S, n) ==
    IF n = 0 THEN {<<>>}
    ELSE LET shorter == SeqsUpTo(S, n - 1)
         IN  shorter \cup {Append(s, x) : s \in {t \in shorter : Len(t) = n - 1}, x \in S}

\* ------------------------------------------------------------------ sub_envvars_in_envname
\* Strings are sequences of characters. None is Python's None.
None == <<"None">>
NoResult == [status |-> "none", value |-> <<>>]

\* the characters \w matches, among those of the model
WordChars ==
    {"A", "B", "x", "y", "_", "METAFLOW_RUN_ID", "METAFLOW_TASK_ID", "METAFLOW_INIT_"}

RECURSIVE WordRun(_, _)
\* length of the longest run of \w characters of s that starts at position i
WordRun(s, i) ==
    IF i <= Len(s) /\ s[i] \in WordChars THEN 1 + WordRun(s, i + 1) ELSE 0

\* length of VAR when r"\@{(\w+)}" matches s at position i, 0 when it does not
MatchAt(s, i) ==
    IF i + 3 <= Len(s) /\ s[i] = "@" /\ s[i + 1] = "{"
        THEN LET n == WordRun(s, i + 2)
             IN  IF n >= 1 /\ i + 2 + n <= Len(s) /\ s[i + 2 + n] = "}" THEN n ELSE 0
        ELSE 0

RECURSIVE FindAllFrom(_, _)
\* line 267: re.findall(r"\@{(\w+)}", name), scanning from position i
FindAllFrom(s, i) ==
    IF i > Len(s) THEN <<>>
    ELSE LET n == MatchAt(s, i)
         IN  IF n > 0 THEN <<SubSeq(s, i + 2, i + 1 + n)>> \o FindAllFrom(s, i + n + 3)
             ELSE FindAllFrom(s, i + 1)

FindAll(s) == FindAllFrom(s, 1)

\* line 273: "@{%s}" % envvar
Placeholder(envvar) == <<"@", "{">> \o envvar \o <<"}">>

RECURSIVE StrReplaceFrom(_, _, _, _)
\* str.replace(old, new): every non-overlapping occurrence, left to right
StrReplaceFrom(s, i, old, new) ==
    IF i > Len(s) THEN <<>>
    ELSE IF i + Len(old) - 1 <= Len(s) /\ SubSeq(s, i, i + Len(old) - 1) = old
        THEN new \o StrReplaceFrom(s, i + Len(old), old, new)
    ELSE <<s[i]>> \o StrReplaceFrom(s, i + 1, old, new)

StrReplace(s, old, new) == StrReplaceFrom(s, 1, old, new)

\* dict.get(key): None for a key that is not there
DictGet(d, key) == IF key \in DOMAIN d THEN d[key] ELSE None

\* A mutant of Replacement: addl_env looked up first.
Replacement_AddlFirst(envvar, environ, addl) ==
    IF DictGet(addl, envvar) # None THEN DictGet(addl, envvar)
    ELSE DictGet(environ, envvar)

\* lines 269-271: os.environ.get(envvar, addl_env.get(envvar)); a callable
\* value of addl_env stands here as the string it returns.
Replacement(envvar, environ, addl) ==
    IF DictGet(environ, envvar) # None THEN DictGet(environ, envvar)
    ELSE DictGet(addl, envvar)

\* A mutant of SubLoop: a variable with no value is skipped, not reported.
RECURSIVE SubLoop_Skip(_, _, _, _)
SubLoop_Skip(name, order, environ, addl) ==
    IF order = <<>> THEN [status |-> "returned", value |-> name]
    ELSE LET replacement == Replacement(Head(order), environ, addl)
         IN  IF replacement # None
                 THEN SubLoop_Skip(StrReplace(name, Placeholder(Head(order)), replacement),
                                   Tail(order), environ, addl)
             ELSE SubLoop_Skip(name, Tail(order), environ, addl)

RECURSIVE SubLoop(_, _, _, _)
\* lines 268-279: the loop over set(envvars_to_sub), visited in the given order
SubLoop(name, order, environ, addl) ==
    IF order = <<>> THEN [status |-> "returned", value |-> name]
    ELSE LET replacement == Replacement(Head(order), environ, addl)
         IN  IF replacement # None
                 THEN SubLoop(StrReplace(name, Placeholder(Head(order)), replacement),
                              Tail(order), environ, addl)
             ELSE [status |-> "raised", value |-> <<>>]

\* the orders in which a set can be iterated
Orders(S) == {o \in [1..Cardinality(S) -> S] : Range(o) = S}

\* The inputs: names made of at most MaxPieces pieces.
MaxPieces == 2
VarNames == {<<"A">>, <<"B">>}
\* a placeholder for each variable, a placeholder nested in another, plain text
Pieces == {Placeholder(<<"A">>), Placeholder(<<"B">>),
           <<"@", "{">> \o Placeholder(<<"A">>) \o <<"}">>, <<"x">>}
\* plain values, and one that reads as a placeholder
EnvVals == {<<"B">>, Placeholder(<<"B">>)}
AddlVals == {<<"y">>, <<"A">>}

RECURSIVE Concat(_)
Concat(ss) == IF ss = <<>> THEN <<>> ELSE Head(ss) \o Concat(Tail(ss))

SubNames == {Concat(ps) : ps \in SeqsUpTo(Pieces, MaxPieces)}

SubIdle ==
    /\ sub_name = <<>>
    /\ os_environ = <<>>
    /\ addl_env = <<>>
    /\ sub_result = NoResult

\* ---------------------------------------------------------------------------
\* _resolve_deps_sources (lines 711-807) and what it calls
\* ---------------------------------------------------------------------------

\* A str is a sequence of pieces, "" is <<>>, None is the value None above.
\* A dict is a sequence of <<key, value>> pairs with distinct keys, in
\* insertion order; a list is a sequence.

\* an Optional[Sequence[TStr]] field: None (line 320-323) or a list
Unset == [set |-> FALSE, val |-> <<>>]
Stored(l) == [set |-> TRUE, val |-> l]
\* Python truth value of such a field: None and [] are both false
Truthy(m) == m.set /\ m.val # <<>>

TStr(category, value) == [category |-> category, value |-> value]

\* lines 732, 746, 752: "%s==%s" % (name, ver) if ver else name
Requirement(name, ver) == IF ver # "" THEN <<name, "==", ver>> ELSE <<name>>

Keys(d) == {d[i][1] : i \in DOMAIN d}

\* d[k] = v
DictSetItem(d, k, v) ==
    IF k \in Keys(d) THEN [i \in DOMAIN d |-> IF d[i][1] = k THEN <<k, v>> ELSE d[i]]
    ELSE Append(d, <<k, v>>)

RECURSIVE DictUpdate(_, _)
\* lines 667-668: user_deps = dict(base); user_deps.update(local)
DictUpdate(d, e) ==
    IF e = <<>> THEN d
    ELSE DictUpdate(DictSetItem(d, Head(e)[1], Head(e)[2]), Tail(e))

\* utils.merge_dep_dicts(deps, user_deps): the pinned entries form a floor,
\* the user's entries are added for every other key.
MergeDepDicts(deps, user_deps) ==
    deps \o Filter(user_deps, {e \in Range(user_deps) : e[1] \notin Keys(deps)})

\* utils.conda_deps_to_pip_deps: the pinned entries, declared as pip ones
CondaDepsToPipDeps(deps) == deps

\* vendor.packaging.utils.canonicalize_version: equivalent version
\* expressions compare equal ("1.0" and "1")
CanonicalizeVersion(ver) ==
    IF ver = "1.0" THEN "1" ELSE IF ver = "3.8.0" THEN "3.8" ELSE ver

\* A mutant of Dedup: nothing is dropped.
Dedup_Nothing(l, seen) == l

RECURSIVE Dedup(_, _)
\* lines 674-684, 699-709, 1023-1033: first occurrence wins
Dedup(l, seen) ==
    IF l = <<>> THEN <<>>
    ELSE IF Head(l) \in seen THEN Dedup(Tail(l), seen)
    ELSE <<Head(l)>> \o Dedup(Tail(l), seen \cup {Head(l)})

\* line 601: platform.python_version() of the running interpreter
PlatformPython == <<"3.10">>

\* lines 114-124, 964-974: the defaults of the attributes of both classes
\* (libraries, channels, pip_packages, pip_sources for @conda; packages,
\* sources for @pip); the flags are "None", "True" or "False"
Defaults ==
    [name |-> None, pathspec |-> None, python |-> None,
     libraries |-> <<>>, channels |-> <<>>, pip_packages |-> <<>>,
     pip_sources |-> <<>>, packages |-> <<>>, sources |-> <<>>,
     fetch_at_exec |-> "None", disabled |-> "None"]

\* the attributes that hold a dict, a list, a flag
DictAttrs == {"libraries", "pip_packages", "packages"}
ListAttrs == {"channels", "pip_sources", "sources"}
FlagAttrs == {"fetch_at_exec", "disabled"}

\* the first element of l that is not None
FirstNotNone(l) == l[CHOOSE i \in DOMAIN l : l[i] # None /\ \A j \in 1..(i - 1) : l[j] = None]

StepAlias(pathspec) == <<"step:">> \o pathspec

\* lines 607-627: the name the step derives from, None when there is none
PossibleName(attrs, base) ==
    LET x == FirstNotNone(<<
                 attrs.name,
                 IF attrs.pathspec # None /\ attrs.pathspec # <<>>
                     THEN StepAlias(attrs.pathspec) ELSE None,
                 base.name,
                 IF base.pathspec # None /\ base.pathspec # <<>>
                     THEN StepAlias(base.pathspec) ELSE None,
                 <<>> >>)
    IN  IF x = <<>> THEN None ELSE x

\* lines 606-634: _from(); order is the order in which the placeholders of
\* the name are visited
From(attrs, base, order, environ, env_for_fetch) ==
    IF PossibleName(attrs, base) = None THEN [status |-> "returned", value |-> None]
    ELSE SubLoop(PossibleName(attrs, base), order, environ, env_for_fetch)

\* What the registry (conda.env_id_from_alias, conda.environment) answers
\* for the alias: known is "env_id_from_alias returns an id", exists is
\* "environment(id) is not None"; python is the version of the python
\* package of the environment, None when it lists none.
NoEnv ==
    [known |-> FALSE, exists |-> FALSE, env_type |-> "None", python |-> None,
     deps |-> <<>>, sources |-> <<>>]

NoCalls == [pin |-> 0, python |-> 0, registry |-> 0]

\* A mutant of FromEnv: an environment the registry does not hold for the
\* architecture is returned all the same.
FromEnv_NoArchCheck(alias, cached, registry) ==
    IF alias.status = "raised"
        THEN [exc |-> "could not find envvar", present |-> FALSE, lookups |-> 0]
    ELSE IF alias.value = None
        THEN [exc |-> "none", present |-> FALSE, lookups |-> 0]
    ELSE IF cached
        THEN [exc |-> "none", present |-> TRUE, lookups |-> 0]
    ELSE IF ~registry.known
        THEN [exc |-> "not a known environment", present |-> FALSE, lookups |-> 1]
    ELSE [exc |-> "none", present |-> TRUE, lookups |-> 2]

\* A mutant of FromEnv: the registry is asked again although the environment
\* is kept on the instance.
FromEnv_AlwaysLookup(alias, cached, registry) ==
    IF alias.status = "raised"
        THEN [exc |-> "could not find envvar", present |-> FALSE, lookups |-> 0]
    ELSE IF alias.value = None
        THEN [exc |-> "none", present |-> FALSE, lookups |-> 0]
    ELSE IF ~registry.known
        THEN [exc |-> "not a known environment", present |-> FALSE, lookups |-> 1]
    ELSE IF ~registry.exists
        THEN [exc |-> "does not exist for arch", present |-> FALSE, lookups |-> 2]
    ELSE [exc |-> "none", present |-> TRUE, lookups |-> 2]

\* lines 234-255: the from_env property, read for the first time in a call;
\* lookups is the number of calls to the registry it makes
FromEnv(alias, cached, registry) ==
    IF alias.status = "raised"
        THEN [exc |-> "could not find envvar", present |-> FALSE, lookups |-> 0]
    ELSE IF alias.value = None
        THEN [exc |-> "none", present |-> FALSE, lookups |-> 0]
    ELSE IF cached
        THEN [exc |-> "none", present |-> TRUE, lookups |-> 0]
    ELSE IF ~registry.known
        THEN [exc |-> "not a known environment", present |-> FALSE, lookups |-> 1]
    ELSE IF ~registry.exists
        THEN [exc |-> "does not exist for arch", present |-> FALSE, lookups |-> 2]
    ELSE [exc |-> "none", present |-> TRUE, lookups |-> 2]

\* lines 594-604, 636-645: _python_version() once from_env is known; the
\* list is built whole, so _from_env_python() runs whatever the attributes
PythonVersion(attrs, base, present, registry) ==
    IF present /\ registry.python = None
        THEN [exc |-> "cannot determine python version", value |-> None]
    ELSE [exc |-> "none",
          value |-> FirstNotNone(<<attrs.python, base.python,
                                   IF present THEN registry.python ELSE None,
                                   PlatformPython>>)]

\* lines 652-664 (CondaStepDecorator) and 994 (PipStepDecorator): whether
\* _conda_deps reads the pin source
CondaDepsPinned(cls, present, registry) ==
    IF cls = "conda" THEN ~present \/ registry.env_type # "PIP_ONLY"
    ELSE present /\ registry.env_type # "PIP_ONLY"

\* lines 688 and 1005-1015: whether _pip_deps reads the pin source. Line 688
\* compares the environment itself, not its env_type, with EnvType.PIP_ONLY:
\* the comparison is never true.
PipDepsPinned(cls, present, registry) ==
    IF cls = "conda" THEN FALSE
    ELSE ~present \/ registry.env_type = "PIP_ONLY"

\* A mutant of UserDeps: the base layer is applied on top of the local one.
UserDeps_BaseOnTop(base_map, local_map) == DictUpdate(local_map, base_map)

\* lines 667-668, 693-694, 1017-1018: user_deps = dict(base map);
\* user_deps.update(local map)
UserDeps(base_map, local_map) == DictUpdate(base_map, local_map)

\* lines 650-671 and 993-998: _conda_deps()
CondaDeps(cls, attrs, base, present, registry, pinned) ==
    LET deps == IF CondaDepsPinned(cls, present, registry) THEN pinned ELSE <<>>
    IN  IF cls = "conda"
            THEN MergeDepDicts(deps, UserDeps(base.libraries, attrs.libraries))
        ELSE deps

\* lines 686-696 and 1003-1020: _pip_deps()
PipDeps(cls, attrs, base, present, registry, pinned) ==
    LET deps == IF PipDepsPinned(cls, present, registry)
                    THEN CondaDepsToPipDeps(pinned) ELSE <<>>
    IN  IF cls = "conda"
            THEN MergeDepDicts(deps, UserDeps(base.pip_packages, attrs.pip_packages))
        ELSE MergeDepDicts(deps, UserDeps(base.packages, attrs.packages))

\* lines 673-684 and 1000-1001: _conda_channels()
CondaChannels(cls, attrs, base) ==
    IF cls = "conda" THEN Dedup(attrs.channels \o base.channels, {}) ELSE <<>>

\* lines 698-709 and 1022-1033: _pip_sources()
PipSources(cls, attrs, base) ==
    IF cls = "conda" THEN Dedup(attrs.pip_sources \o base.pip_sources, {})
    ELSE Dedup(attrs.sources \o base.sources, {})

\* lines 731-734
CondaEntries(d) == [i \in DOMAIN d |-> TStr("conda", Requirement(d[i][1], d[i][2]))]

\* lines 749-755
PipEntries(d) ==
    [i \in DOMAIN d |-> TStr("pip", Requirement(d[i][1], CanonicalizeVersion(d[i][2])))]

\* A mutant of PythonEntry: the version is written as it was declared.
PythonEntry_AsDeclared(version) == TStr("conda", <<"python", "==", version[1]>>)

\* lines 756-762
PythonEntry(version) ==
    TStr("conda", <<"python", "==", CanonicalizeVersion(version[1])>>)

\* lines 764-776
SourceEntries(category, l) == [i \in DOMAIN l |-> TStr(category, <<l[i]>>)]

\* EnvsResolver.extract_info_from_base: the entries of the reference
\* environment with the non-base entries on top
ExtractInfoFromBase(registry, deps, sources) ==
    [deps |-> registry.deps \o deps, sources |-> registry.sources \o sources]

\* the state of an instance after step_init (lines 319-324)
NoMemo ==
    [from_env |-> FALSE, env_type |-> "None",
     resolved_non_base_deps |-> Unset, resolved_non_base_sources |-> Unset,
     resolved_deps |-> Unset, resolved_sources |-> Unset]

\* lines 714-721: all([...]) of the four stored lists
AllFilled(memo) ==
    /\ Truthy(memo.resolved_non_base_deps)
    /\ Truthy(memo.resolved_non_base_sources)
    /\ Truthy(memo.resolved_deps)
    /\ Truthy(memo.resolved_sources)

B2N(b) == IF b THEN 1 ELSE 0

\* A mutant of EnvTypeOf: the conda entries are not looked at.
EnvTypeOf_AnyDeps(present, registry, conda_entries) ==
    IF present /\ registry.env_type = "PIP_ONLY" THEN "PIP_ONLY" ELSE "None"

\* lines 737-743: the env_type kept for the step, from the list as it is
\* once the entries of _conda_deps() are in
EnvTypeOf(present, registry, conda_entries) ==
    IF present /\ registry.env_type = "PIP_ONLY" /\ Len(conda_entries) = 0
        THEN "PIP_ONLY" ELSE "None"

\* A mutant of NonBaseDepsReset: the list of the previous call is extended.
NonBaseDepsReset_Kept(memo) == memo.resolved_non_base_deps.val

\* line 729: self._resolved_non_base_deps = [] before the entries are added
NonBaseDepsReset(memo) == <<>>

Raised(exc, memo, made) ==
    [status |-> "raised", exc |-> exc, ret |-> <<>>, memo |-> memo, calls |-> made]

\* lines 711-807: one call of _resolve_deps_sources. alias is what _from()
\* gives; the result holds what the call returns or raises, the fields of
\* the instance after it and the calls it made to the pin source
\* (get_pinned_conda_libs), the python-version resolver (_python_version)
\* and the registry (conda.env_id_from_alias, conda.environment,
\* EnvsResolver.extract_info_from_base).
ResolveDepsSources(cls, attrs, base, registry, pinned, memo, alias) ==
    IF AllFilled(memo)
        THEN [status |-> "returned", exc |-> "none",
              ret |-> <<memo.resolved_non_base_deps.val,
                        memo.resolved_non_base_sources.val,
                        memo.resolved_deps.val, memo.resolved_sources.val>>,
              memo |-> memo, calls |-> NoCalls]
    ELSE
    LET fe == FromEnv(alias, memo.from_env, registry)
        m1 == [memo EXCEPT !.resolved_non_base_deps = Stored(<<>>)]
    IN
    IF fe.exc # "none"
        THEN Raised(fe.exc, m1, [NoCalls EXCEPT !.registry = fe.lookups])
    ELSE
    LET present == fe.present
        m2 == [m1 EXCEPT !.from_env = present]
        pv == PythonVersion(attrs, base, present, registry)
        cpin == CondaDepsPinned(cls, present, registry)
        ppin == PipDepsPinned(cls, present, registry)
        conda_entries == NonBaseDepsReset(memo)
                         \o CondaEntries(CondaDeps(cls, attrs, base, present, registry, pinned))
        env_type == EnvTypeOf(present, registry, conda_entries)
        m3 == [m2 EXCEPT !.resolved_non_base_deps = Stored(conda_entries),
                         !.env_type = env_type]
    IN
    IF cpin /\ pv.exc # "none"
        THEN Raised(pv.exc, m2, [pin |-> 0, python |-> 1, registry |-> fe.lookups])
    ELSE IF ppin /\ pv.exc # "none"
        THEN Raised(pv.exc, m3,
                    [pin |-> B2N(cpin), python |-> B2N(cpin) + 1, registry |-> fe.lookups])
    ELSE
    LET deps == conda_entries
                \o PipEntries(PipDeps(cls, attrs, base, present, registry, pinned))
                \o (IF ~present THEN <<PythonEntry(pv.value)>> ELSE <<>>)
        sources == SourceEntries("conda", CondaChannels(cls, attrs, base))
                   \o SourceEntries("pip", PipSources(cls, attrs, base))
        eff == IF present THEN ExtractInfoFromBase(registry, deps, sources)
               ELSE [deps |-> deps, sources |-> sources]
    IN  [status |-> "returned", exc |-> "none",
         ret |-> <<deps, sources, eff.deps, eff.sources>>,
         memo |-> [from_env |-> present, env_type |-> env_type,
                   resolved_non_base_deps |-> Stored(deps),
                   resolved_non_base_sources |-> Stored(sources),
                   resolved_deps |-> Stored(eff.deps),
                   resolved_sources |-> Stored(eff.sources)],
         calls |-> [pin |-> B2N(cpin) + B2N(ppin),
                    python |-> B2N(cpin) + B2N(ppin) + B2N(~present),
                    registry |-> fe.lookups + B2N(present)]]

\* metaflow.unbounded_foreach.UBF_CONTROL, UBF_TASK and no context
UbfContexts == {"ubf_control", "ubf_task", "None"}

\* the first flag that is not None
FirstFlag(l) == l[CHOOSE i \in DOMAIN l : l[i] # "None" /\ \A j \in 1..(i - 1) : l[j] = "None"]

\* lines 142-153: is_fetch_at_exec(ubf_context)
IsFetchAtExec(attrs, base, ubf_context) ==
    IF ubf_context = "ubf_control" THEN FALSE
    ELSE FirstFlag(<<attrs.fetch_at_exec, base.fetch_at_exec, "False">>) = "True"

\* the truth value Python gives the value of attribute k
TruthyAttr(attrs, k) ==
    IF k \in FlagAttrs THEN attrs[k] = "True"
    ELSE IF k \in DictAttrs \cup ListAttrs THEN attrs[k] # <<>>
    ELSE attrs[k] \notin {None, <<>>}

\* lines 329-334, 348-360: some attribute other than name, pathspec and
\* fetch_at_exec has a true value
AnyOtherAttribute(attrs) ==
    \E k \in DOMAIN attrs \ {"name", "pathspec", "fetch_at_exec"} : TruthyAttr(attrs, k)

\* A mutant of StepInitChecks: fetch_at_exec looks at the local layer only.
StepInitChecks_LocalOnly(attrs, base) ==
    IF (TruthyAttr(attrs, "name") \/ TruthyAttr(attrs, "pathspec"))
       /\ AnyOtherAttribute(attrs)
        THEN "name or pathspec along with other attributes"
    ELSE IF IsFetchAtExec(attrs, base, "None") /\ PossibleName(attrs, base) = None
        THEN "fetch_at_exec and no environment to fetch"
    ELSE IF IsFetchAtExec(attrs, base, "None") /\ AnyOtherAttribute(attrs)
        THEN "fetch_at_exec with other than a pure named environment"
    ELSE "none"

\* A mutant of StepInitChecks: name and pathspec are accepted with anything.
StepInitChecks_NoNameCheck(attrs, base) ==
    IF IsFetchAtExec(attrs, base, "None") /\ PossibleName(attrs, base) = None
        THEN "fetch_at_exec and no environment to fetch"
    ELSE IF IsFetchAtExec(attrs, base, "None")
            /\ (AnyOtherAttribute(attrs) \/ AnyOtherAttribute(base))
        THEN "fetch_at_exec with other than a pure named environment"
    ELSE "none"

\* A mutant of StepInitChecks: a deferred step may set disabled.
StepInitChecks_DisabledAllowed(attrs, base) ==
    IF (TruthyAttr(attrs, "name") \/ TruthyAttr(attrs, "pathspec"))
       /\ AnyOtherAttribute([attrs EXCEPT !.disabled = "None"])
        THEN "name or pathspec along with other attributes"
    ELSE IF IsFetchAtExec(attrs, base, "None") /\ PossibleName(attrs, base) = None
        THEN "fetch_at_exec and no environment to fetch"
    ELSE IF IsFetchAtExec(attrs, base, "None")
            /\ (AnyOtherAttribute([attrs EXCEPT !.disabled = "None"])
                \/ AnyOtherAttribute([base EXCEPT !.disabled = "None"]))
        THEN "fetch_at_exec with other than a pure named environment"
    ELSE "none"

\* lines 328-364: the checks step_init makes on the attributes once the gate
\* is passed and _base_attributes is set; the error raised, "none" if none
StepInitChecks(attrs, base) ==
    IF (TruthyAttr(attrs, "name") \/ TruthyAttr(attrs, "pathspec"))
       /\ AnyOtherAttribute(attrs)
        THEN "name or pathspec along with other attributes"
    ELSE IF IsFetchAtExec(attrs, base, "None") /\ PossibleName(attrs, base) = None
        THEN "fetch_at_exec and no environment to fetch"
    ELSE IF IsFetchAtExec(attrs, base, "None")
            /\ (AnyOtherAttribute(attrs) \/ AnyOtherAttribute(base))
        THEN "fetch_at_exec with other than a pure named environment"
    ELSE "none"

\* lines 580-592 and 977-988: _self_disabled()
SelfDisabled(cls, attrs) ==
    IF attrs.disabled # "None" THEN attrs.disabled
    ELSE IF \E k \in (IF cls = "conda"
                         THEN {"name", "pathspec", "libraries", "pip_packages", "python"}
                      ELSE {"name", "pathspec", "packages", "python"}) :
                TruthyAttr(attrs, k)
        THEN "False"
    ELSE "None"

\* A mutant of IsEnabled: the base layer is asked first.
IsEnabled_BaseFirst(cls, attrs, base, ubf_context) ==
    IF ubf_context = "ubf_control" THEN FALSE
    ELSE FirstFlag(<<base.disabled, SelfDisabled(cls, attrs), "False">>) # "True"

\* lines 129-140: is_enabled(ubf_context)
IsEnabled(cls, attrs, base, ubf_context) ==
    IF ubf_context = "ubf_control" THEN FALSE
    ELSE FirstFlag(<<SelfDisabled(cls, attrs), base.disabled, "False">>) # "True"

\* lines 594-604 with the read of from_env that _from_env_python() makes
\* (line 637): what _python_version() returns or raises
PythonVersionOutcome(attrs, base, alias, cached, registry) ==
    LET fe == FromEnv(alias, cached, registry)
    IN  IF fe.exc # "none"
            THEN [exc |-> fe.exc, value |-> None, present |-> FALSE, lookups |-> fe.lookups]
        ELSE [exc |-> PythonVersion(attrs, base, fe.present, registry).exc,
              value |-> PythonVersion(attrs, base, fe.present, registry).value,
              present |-> fe.present, lookups |-> fe.lookups]

NoRead ==
    [op |-> "none", arg |-> "None", status |-> "returned", exc |-> "none",
     enabled |-> FALSE, version |-> None, cached |-> FALSE]

InstanceIdle ==
    /\ step_init_exc = "pending"
    /\ read_log = <<>>

\* what is known of the calls made so far on the instance: the number of
\* step_init calls, of tasks and of direct reads, the environment that the
\* most recent successful read of from_env returned and the step_init after
\* which it did, whether the name was substituted since the last step_init,
\* and what runtime_task_created was given and found for the current task
NoHist ==
    [step_inits |-> 0, tasks |-> 0, reads |-> 0, returned |-> NoEnv, returned_at |-> 0,
     substituted |-> FALSE, ubf_context |-> "None", task_alias |-> None,
     run_id |-> None,
     task_env |-> NoEnv]

\* one lifecycle call: what it was, how it ended, the reads of from_env it
\* made, whether it substituted the placeholders of the name, the deferred
\* context at that time, and for runtime_step_cli what it left in cli_args
NoLifeCall ==
    [op |-> "none", ubf_context |-> "None", exc |-> "none",
     read_from_env |-> FALSE, from_env |-> NoEnv, lookups |-> 0,
     substituted |-> FALSE, first_substitution |-> FALSE, context |-> <<>>,
     cli_env |-> <<>>, entrypoint |-> "python", published |-> "none", line |-> 0,
     prior |-> NoEnv, prior_at |-> 0, step_inits |-> 0, task_id |-> None]

LifeIdle ==
    /\ self_env_for_fetch = <<>>
    /\ self_from_env = NoEnv
    /\ self_is_remote = FALSE
    /\ life_registry = <<>>
    /\ life_phase = "new"
    /\ life_hist = NoHist
    /\ life_last = NoLifeCall

ResolveIdle ==
    /\ self_cls = "conda"
    /\ self_attributes = Defaults
    /\ self_base_attributes = Defaults
    /\ conda_registry = NoEnv
    /\ pinned_conda_libs = <<>>
    /\ self_memo = NoMemo
    /\ collab_calls = NoCalls
    /\ resolve_log = <<>>

CondaIds(decs) == {d \in Range(decs) : IsCondaStepDecorator(d)}

Init ==
    /\ environment_TYPE \in {"conda", "local"}
    /\ flow_decorators \in SUBSET BaseNames
    /\ insts \in {s \in SeqsUpTo(DecoObjects, MaxDecos) :
                    \E k \in DOMAIN s : s[k].TYPE # "other"}
    /\ decorators = [k \in DOMAIN insts |-> k]
    /\ pass = 1
    /\ pass_start = decorators
    /\ calls = <<>>
    /\ results = [k \in DOMAIN insts |-> "pending"]
    /\ base_attributes = [k \in DOMAIN insts |-> "unset"]
    /\ last = NoCall
    /\ err = NoErr
    /\ SubIdle
    /\ ResolveIdle
    /\ InstanceIdle
    /\ LifeIdle

\* ------------------------------------------------------------------ actions
\* The host calls deco.step_init(flow, graph, step, step.decorators, ...) for an
\* instance of the step that has not been initialized in this pass.
StepInit(self) ==
    /\ err = NoErr
    /\ self \in CondaIds(pass_start) \ Range(calls)
    /\ \E r \in {StepInitOutcome(self, environment_TYPE, flow_decorators, decorators)} :
           /\ decorators' = r.gate.decorators
           /\ calls' = Append(calls, self)
           /\ results' = [results EXCEPT ![self] = r.outcome]
           /\ base_attributes' = [base_attributes EXCEPT ![self] =
                                    IF r.outcome = "initialized" THEN r.from ELSE @]
           /\ last' = [self |-> self, before |-> decorators, called |-> r.gate_called,
                       ret |-> r.gate.ret, exc |-> r.gate.exc,
                       to_remove |-> r.gate.to_remove, del_deco |-> r.gate.del_deco,
                       pass |-> pass, outcome |-> r.outcome]
           /\ err' = r.err
    /\ UNCHANGED <<environment_TYPE, flow_decorators, insts, pass, pass_start>>
    /\ UNCHANGED subVars
    /\ UNCHANGED resolveVars
    /\ UNCHANGED instVars
    /\ UNCHANGED lifeVars

\* step_init is run again over the step's decorators (deploying to a scheduler).
NextPass ==
    /\ err = NoErr
    /\ pass < MaxPasses
    /\ CondaIds(pass_start) \subseteq Range(calls)
    /\ pass' = pass + 1
    /\ pass_start' = decorators
    /\ calls' = <<>>
    /\ results' = [k \in DOMAIN insts |-> "pending"]
    /\ UNCHANGED <<environment_TYPE, flow_decorators, insts, decorators,
                   base_attributes, last, err>>
    /\ UNCHANGED subVars
    /\ UNCHANGED resolveVars
    /\ UNCHANGED instVars
    /\ UNCHANGED lifeVars

Next == (\E self \in DOMAIN insts : StepInit(self)) \/ NextPass

Spec == Init /\ [][Next]_vars

\* ------------------------------------------------------------------ claims: the gate
\* Vocabulary of the claims, stated over the decorator list alone.
KindIds(list, t) == {d \in Range(list) : insts[d].TYPE = t}
UserIds(list, t) == {d \in KindIds(list, t) : insts[d].statically_defined}
\* the instances of a kind left after duplicate reduction
KeptIds(list, t) ==
    IF Cardinality(KindIds(list, t)) > 1 THEN UserIds(list, t) ELSE KindIds(list, t)
OneOfEachLeft(list) ==
    Cardinality(KeptIds(list, "conda")) = 1 /\ Cardinality(KeptIds(list, "pip")) = 1
TheOne(S) == CHOOSE x \in S : TRUE
SingleKind(list) == KindIds(list, "conda") = {} \/ KindIds(list, "pip") = {}
\* the calls of the current pass were made in declaration order
DeclarationOrder ==
    \E n \in 0..Len(pass_start) :
        calls = Filter(SubSeq(pass_start, 1, n), CondaIds(pass_start))
PassComplete == CondaIds(pass_start) \subseteq Range(calls)
GateCalled == last.called

\* C1: one user-authored conda instance and one synthesized pip instance, no
\* base decorator.
C1_Scenario ==
    /\ environment_TYPE = "conda"
    /\ flow_decorators = {}
    /\ Len(insts) = 2
    /\ Cardinality(UserIds(<<1, 2>>, "conda")) = 1
    /\ Cardinality(KindIds(<<1, 2>>, "pip")) = 1
    /\ UserIds(<<1, 2>>, "pip") = {}

\* C1: with one user-authored full-manager instance and one synthesized
\* package-only instance and no base decorator, no gate call of the first pass
\* raises and, once the gate has run for both (in either order, for either
\* position in the list), the list holds exactly the full-manager instance.
Thm_C1 ==
    (C1_Scenario /\ pass = 1) =>
        /\ err = NoErr
        /\ Len(calls) = 2 =>
            /\ decorators = <<TheOne(UserIds(<<1, 2>>, "conda"))>>
            /\ Len(decorators) = Len(pass_start) - 1

\* C1 witness: the synthesized pip instance is declared first, the conda
\* instance's gate ran first (and removed it), then the pip instance's gate ran.
Wit_C1 ==
    /\ C1_Scenario /\ pass = 1
    /\ insts[1].TYPE = "pip"
    /\ calls = <<2, 1>>
    /\ decorators = <<2>>

\* the decorators of the step are of pairwise different classes (names)
DistinctNames == \A j, k \in DOMAIN insts : insts[j].name = insts[k].name => j = k

\* C2 (as claimed): a list holding both kinds, after a complete pass in
\* declaration order in which nothing raised, holds instances of one kind only.
\* Stated here for the lists whose decorators have pairwise different names.
Claim_C2 ==
    (/\ pass = 1 /\ PassComplete /\ DeclarationOrder /\ err = NoErr
     /\ DistinctNames
     /\ ~SingleKind(pass_start))
        => SingleKind(decorators)

\* C3 (as claimed): a gate call on a list with two user-authored instances of
\* one kind raises the multiple-conflicting-decorators error, whatever else is
\* in the list. Stated here for decorators with pairwise different names.
Claim_C3 ==
    (GateCalled /\ DistinctNames /\ \E t \in {"conda", "pip"} : Cardinality(UserIds(last.before, t)) >= 2)
        => last.exc = "MultipleConflictingDecorators"

\* C4: when exactly one instance of each kind is left after duplicate
\* reduction and both are user-authored, the gate raises the
\* conflicting-decorator-kinds error, whatever base decorators the flow has.
Thm_C4 ==
    (/\ GateCalled /\ OneOfEachLeft(last.before)
     /\ insts[TheOne(KeptIds(last.before, "conda"))].statically_defined
     /\ insts[TheOne(KeptIds(last.before, "pip"))].statically_defined)
        => last.exc = "ConflictingDecoratorKinds"

\* C4 witness: such a call made with both base decorators declared.
Wit_C4 ==
    /\ GateCalled /\ OneOfEachLeft(last.before)
    /\ insts[TheOne(KeptIds(last.before, "conda"))].statically_defined
    /\ insts[TheOne(KeptIds(last.before, "pip"))].statically_defined
    /\ flow_decorators = BaseNames
    /\ last.exc = "ConflictingDecoratorKinds"

\* C5: when exactly one instance of each kind is left and the gate raises
\* nothing, the instance marked for discard is the pip one, unless the pip one
\* is user-authored or pip_base is declared, and then it is the conda one;
\* exactly one of the two is in to_remove.
Thm_C5 ==
    (GateCalled /\ OneOfEachLeft(last.before) /\ last.exc = "none") =>
        LET c == TheOne(KeptIds(last.before, "conda"))
            p == TheOne(KeptIds(last.before, "pip"))
        IN  /\ last.del_deco =
                  (IF insts[p].statically_defined \/ "pip_base" \in flow_decorators
                      THEN c ELSE p)
            /\ Cardinality({c, p} \cap Range(last.to_remove)) = 1
            /\ last.del_deco \in Range(last.to_remove)

\* C5 witness: a user-authored pip instance, no pip_base, and the conda
\* instance marked for discard.
Wit_C5 ==
    /\ GateCalled /\ OneOfEachLeft(last.before) /\ last.exc = "none"
    /\ "pip_base" \notin flow_decorators
    /\ insts[TheOne(KeptIds(last.before, "pip"))].statically_defined
    /\ last.del_deco = TheOne(KeptIds(last.before, "conda"))

\* C6 vocabulary: the flow declares the base decorator of the other kind.
OpposingBase(i) ==
    \/ insts[i].TYPE = "conda" /\ "pip_base" \in flow_decorators
    \/ insts[i].TYPE = "pip" /\ "conda_base" \in flow_decorators
MatchingBase(i) == IF insts[i].TYPE = "conda" THEN "conda_base" ELSE "pip_base"
PassedGate == GateCalled /\ last.exc = "none" /\ last.ret
IncompatibleAt(place) == err = [exc |-> "IncompatibleBaseDecorator", at |-> place]
\* what the claim says of the attributes when no opposing base is declared
C6_NoOpposingBase(i) ==
    (~OpposingBase(i) /\ PassedGate) =>
        /\ last.outcome = "initialized"
        /\ base_attributes[i] =
              (IF MatchingBase(i) \in flow_decorators THEN MatchingBase(i) ELSE "defaults")

\* C6 (as claimed): with the opposing base declared, step_init of an instance
\* never initializes it; a user-authored instance fails in the gate with the
\* incompatible-base error; an instance that passes the gate fails in
\* _get_base_attributes; with no opposing base _get_base_attributes returns
\* the matching base's attributes or the defaults.
Claim_C6 ==
    last.self # 0 =>
        LET i == last.self
        IN  /\ OpposingBase(i) =>
                /\ last.outcome # "initialized"
                /\ (GateCalled /\ insts[i].statically_defined)
                       => IncompatibleAt("_resolve_pip_or_conda_deco")
                /\ PassedGate => IncompatibleAt("_get_base_attributes")
            /\ C6_NoOpposingBase(i)

\* C6 (amended): with the opposing base declared, step_init of an instance
\* raises or returns at the gate without initializing the instance; a
\* user-authored instance fails in the gate with the incompatible-base error
\* when the gate arbitrates between it and one synthesized instance of the
\* other kind; an instance that passes the gate fails in
\* _get_base_attributes; with no opposing base _get_base_attributes returns
\* the matching base's attributes or the defaults.
Thm_C6 ==
    last.self # 0 =>
        LET i == last.self
            kept == KeptIds(last.before, "conda") \cup KeptIds(last.before, "pip")
        IN  /\ OpposingBase(i) =>
                /\ last.outcome \in {"raised", "discarded"}
                /\ (/\ GateCalled /\ insts[i].statically_defined
                    /\ OneOfEachLeft(last.before) /\ i \in kept
                    /\ \A d \in kept \ {i} : ~insts[d].statically_defined)
                       => IncompatibleAt("_resolve_pip_or_conda_deco")
                /\ PassedGate => IncompatibleAt("_get_base_attributes")
            /\ C6_NoOpposingBase(i)

\* C6 witness: a user-authored instance alone on its step, the opposing base
\* declared: it passes the gate and _get_base_attributes raises.
Wit_C6 ==
    /\ last.self # 0 /\ OpposingBase(last.self)
    /\ insts[last.self].statically_defined
    /\ PassedGate
    /\ IncompatibleAt("_get_base_attributes")

\* C7: in a pass that follows a complete pass, every gate call returns
\* continue, raises nothing, and the decorator list stays what it was when the
\* pass started.
Thm_C7 ==
    pass >= 2 =>
        /\ decorators = pass_start
        /\ last.pass = pass => (last.called /\ last.ret /\ last.exc = "none")

\* C7 witness: the first pass removed instances and the second pass has run
\* the gate for every instance left.
Wit_C7 ==
    /\ pass = 2 /\ PassComplete /\ last.pass = 2
    /\ Len(decorators) < Len(insts)
    /\ last.ret

\* C23 (as claimed): when a kind has several instances on the step and one of
\* them is user-authored, a complete pass in declaration order that raised
\* nothing leaves no synthesized instance of that kind in the list, and at most
\* one instance of that kind. Stated here for decorators with pairwise
\* different names.
Claim_C23 ==
    (/\ pass = 1 /\ PassComplete /\ DeclarationOrder /\ err = NoErr
     /\ DistinctNames)
        => \A t \in {"conda", "pip"} :
               (Cardinality(KindIds(pass_start, t)) > 1 /\ UserIds(pass_start, t) # {})
                   => /\ KindIds(decorators, t) \subseteq UserIds(pass_start, t)
                      /\ Cardinality(KindIds(decorators, t)) <= 1

\* the last CondaStepDecorator instance of a list, in declaration order
LastInstance(list) ==
    LET all_decs == Filter(list, CondaIds(list)) IN all_decs[Len(all_decs)]
\* the most recent gate call changed the decorator list
Removed == decorators # last.before

\* C24 (as claimed): a gate call made by an instance other than the last
\* CondaStepDecorator instance of the list leaves the list unchanged, and a
\* call that follows a removal made in the same pass removes nothing, also
\* when several instances carry the same name.
Claim_C24 ==
    (GateCalled /\ last.pass = pass) =>
        /\ last.self # LastInstance(last.before) => ~Removed
        /\ last.before # pass_start => ~Removed

\* C25 (as claimed): after a complete pass in declaration order that raised
\* nothing, the gate returned continue to an instance (step_init went on and
\* initialized it) if and only if the instance is still in the decorator
\* list; a user-authored instance left in the list was initialized, also when
\* a discarded synthesized instance carries its name.
Claim_C25 ==
    (pass = 1 /\ PassComplete /\ DeclarationOrder /\ err = NoErr) =>
        /\ \A i \in CondaIds(pass_start) :
               results[i] = "initialized" <=> i \in Range(decorators)
        /\ \A i \in CondaIds(decorators) :
               insts[i].statically_defined => results[i] = "initialized"

\* the errors the gate raises
GateErrors ==
    {"MultipleConflictingDecorators", "ConflictingDecoratorKinds",
     "IncompatibleBaseDecorator"}

\* C30: when a gate call raises, the decorator list is what it was before the
\* call, step_init ends with that exception and the calling instance has none
\* of its state set (its _base_attributes was never assigned).
Thm_C30 ==
    (GateCalled /\ last.exc # "none") =>
        /\ last.exc \in GateErrors
        /\ decorators = last.before
        /\ last.outcome = "raised"
        /\ results[last.self] = "raised"
        /\ err = [exc |-> last.exc, at |-> "_resolve_pip_or_conda_deco"]
        /\ base_attributes[last.self] = "unset"

\* C30 witness: the gate raised for a list in which it had found a synthesized
\* duplicate to remove.
Wit_C30 ==
    /\ GateCalled /\ last.exc \in GateErrors
    /\ last.to_remove # <<>>
    /\ results[last.self] = "raised"
    /\ decorators = last.before
    /\ Len(decorators) = Len(insts)

\* C30 witness: the gate raised the incompatible-base error.
Wit_C30_Base ==
    /\ GateCalled /\ last.exc = "IncompatibleBaseDecorator"
    /\ decorators = last.before
    /\ base_attributes[last.self] = "unset"

\* ------------------------------------------------------------------ SpecSub
GateIdle ==
    /\ environment_TYPE = "conda"
    /\ flow_decorators = {}
    /\ insts = <<>>
    /\ decorators = <<>>
    /\ pass = 1
    /\ pass_start = <<>>
    /\ calls = <<>>
    /\ results = <<>>
    /\ base_attributes = <<>>
    /\ last = NoCall
    /\ err = NoErr

InitSub ==
    /\ GateIdle
    /\ sub_name \in SubNames
    /\ os_environ \in [VarNames -> EnvVals \cup {None}]
    /\ addl_env \in [VarNames -> AddlVals \cup {None}]
    /\ sub_result = NoResult
    /\ ResolveIdle
    /\ InstanceIdle
    /\ LifeIdle

\* One call sub_envvars_in_envname(sub_name, addl_env); the set of the
\* variables found is iterated in an order Python does not fix.
SubEnvvarsInEnvname ==
    /\ sub_result = NoResult
    /\ \E order \in Orders(Range(FindAll(sub_name))) :
           sub_result' = SubLoop(sub_name, order, os_environ, addl_env)
    /\ UNCHANGED <<sub_name, os_environ, addl_env>>
    /\ UNCHANGED gateVars
    /\ UNCHANGED resolveVars
    /\ UNCHANGED instVars
    /\ UNCHANGED lifeVars

NextSub == SubEnvvarsInEnvname

SpecSub == InitSub /\ [][NextSub]_vars

\* ------------------------------------------------------------------ claims: placeholders
SubDone == sub_result # NoResult
HasValue(d, v) == v \in DOMAIN d /\ d[v] # None
\* text that may stand before and after a placeholder
Texts == {<<>>, <<"x">>}
Returned(value) == [status |-> "returned", value |-> value]

\* C8 (as claimed): when both the deferred context and the process
\* environment hold a value for VAR, @{VAR} is replaced by the deferred-context
\* value; the environment variable is used when the deferred context has none.
Claim_C8 ==
    \A v \in VarNames, pre \in Texts, post \in Texts :
        (SubDone /\ sub_name = pre \o Placeholder(v) \o post) =>
            /\ (HasValue(addl_env, v) /\ HasValue(os_environ, v))
                   => sub_result = Returned(pre \o addl_env[v] \o post)
            /\ (~HasValue(addl_env, v) /\ HasValue(os_environ, v))
                   => sub_result = Returned(pre \o os_environ[v] \o post)

\* C8 (amended): when both hold a value for VAR, @{VAR} is replaced by the
\* value of the process environment; the deferred-context value is used only
\* when the process environment has no variable VAR.
Thm_C8 ==
    \A v \in VarNames, pre \in Texts, post \in Texts :
        (SubDone /\ sub_name = pre \o Placeholder(v) \o post) =>
            /\ HasValue(os_environ, v)
                   => sub_result = Returned(pre \o os_environ[v] \o post)
            /\ (~HasValue(os_environ, v) /\ HasValue(addl_env, v))
                   => sub_result = Returned(pre \o addl_env[v] \o post)

\* C8 witness: both hold a (different) value and the environment's was used.
Wit_C8 ==
    /\ SubDone /\ sub_name = Placeholder(<<"A">>)
    /\ os_environ[<<"A">>] = <<"B">> /\ addl_env[<<"A">>] = <<"y">>
    /\ sub_result = Returned(<<"B">>)

\* C9 vocabulary
FoundVars == Range(FindAll(sub_name))
Unresolved(v) == ~HasValue(os_environ, v) /\ ~HasValue(addl_env, v)
ValueOf(v) == IF HasValue(os_environ, v) THEN os_environ[v] ELSE addl_env[v]
Contains(s, t) == \E i \in 1..(Len(s) - Len(t) + 1) : SubSeq(s, i, i + Len(t) - 1) = t
RECURSIVE ReplacedFrom(_, _)
\* the name with each placeholder occurrence replaced by the value of its variable
ReplacedFrom(s, i) ==
    IF i > Len(s) THEN <<>>
    ELSE LET n == MatchAt(s, i)
         IN  IF n > 0 THEN ValueOf(SubSeq(s, i + 2, i + 1 + n)) \o ReplacedFrom(s, i + n + 3)
             ELSE <<s[i]>> \o ReplacedFrom(s, i + 1)
RaisesIffUnresolved ==
    (sub_result.status = "raised") <=> (\E v \in FoundVars : Unresolved(v))
AllReplaced ==
    /\ sub_result.value = ReplacedFrom(sub_name, 1)
    /\ \A v \in FoundVars : ~Contains(sub_result.value, Placeholder(v))
\* no substituted value holds an "@", and every "@" of the name starts a placeholder
CleanValues == \A v \in FoundVars : "@" \notin Range(ValueOf(v))
CleanName == \A i \in DOMAIN sub_name : sub_name[i] = "@" => MatchAt(sub_name, i) > 0

\* C9 (as claimed): the call raises iff some @{VAR} of the name has a value in
\* neither map; otherwise it returns the name with every occurrence of every
\* placeholder replaced, and no @{VAR} of the original name is left.
Claim_C9 ==
    SubDone =>
        /\ RaisesIffUnresolved
        /\ sub_result.status = "returned" => AllReplaced

\* C9 (amended): the call raises iff some @{VAR} of the name has a value in
\* neither map; otherwise it returns, and when no substituted value holds an
\* "@" and every "@" of the name starts a placeholder, what it returns is the
\* name with every occurrence of every placeholder replaced, no @{VAR} left.
Thm_C9 ==
    SubDone =>
        /\ RaisesIffUnresolved
        /\ (sub_result.status = "returned" /\ CleanValues /\ CleanName) => AllReplaced

\* C9 checks of the two conditions of the amendment: each alone is not enough.
C9_ValuesOnly ==
    (SubDone /\ sub_result.status = "returned" /\ CleanValues) => AllReplaced
C9_NameOnly ==
    (SubDone /\ sub_result.status = "returned" /\ CleanName) => AllReplaced

\* C9 witness: a name with two placeholders, both resolved and replaced.
Wit_C9 ==
    /\ SubDone /\ sub_result.status = "returned"
    /\ CleanValues /\ CleanName
    /\ Cardinality(FoundVars) = 2
    /\ sub_result.value = <<"B", "y">>

\* C9 witness of the error: one of two placeholders has no value.
Wit_C9_Raised ==
    /\ SubDone /\ sub_result.status = "raised"
    /\ Cardinality(FoundVars) = 2
    /\ \E v \in FoundVars : ~Unresolved(v)


\* ---------------------------------------------------------------------------
\* Calls of _resolve_deps_sources on one initialized instance
\* ---------------------------------------------------------------------------
\* Largest number of entries declared in the attributes of the two layers.
MaxEntries == 2
\* Largest number of calls of _resolve_deps_sources on the instance.
MaxResolveCalls == 2

Layers == {"local", "base"}
PkgNames == {"numpy", "pandas"}

\* One entry of one attribute of one layer: <<layer, attribute, item>>
Declarations(cls) ==
    IF cls = "conda"
        THEN {<<l, "libraries", <<k, v>>>> : l \in Layers, k \in PkgNames, v \in {"1", "2"}}
             \cup {<<l, "pip_packages", <<"requests", v>>>> : l \in Layers, v \in {"1.0", "2"}}
             \cup {<<l, "channels", <<c>>>> : l \in Layers, c \in {"c1", "c2"}}
             \cup {<<l, "pip_sources", <<"p1">>>> : l \in Layers}
    ELSE {<<l, "packages", <<k, v>>>> : l \in Layers, k \in PkgNames, v \in {"1.0", "2"}}
         \cup {<<l, "sources", <<c>>>> : l \in Layers, c \in {"c1", "c2"}}

RECURSIVE Declare(_, _)
\* the attributes of the two layers once the entries ds are declared, in order
Declare(layers, ds) ==
    IF ds = <<>> THEN layers
    ELSE LET d == Head(ds)
         IN  Declare([layers EXCEPT ![d[1]][d[2]] =
                         IF d[2] \in DictAttrs THEN DictSetItem(@, d[3][1], d[3][2])
                         ELSE IF d[2] \in ListAttrs THEN Append(@, d[3][1])
                         ELSE IF d[2] \in FlagAttrs THEN d[3][1]
                         ELSE d[3]],
                     Tail(ds))

\* lines 328-338: step_init accepts name or pathspec only with nothing else
ValidAttributes(attrs) ==
    (attrs.name \notin {None, <<>>} \/ attrs.pathspec \notin {None, <<>>})
        => /\ attrs.python = None
           /\ \A a \in {"libraries", "channels", "pip_packages", "pip_sources",
                        "packages", "sources"} : attrs[a] = <<>>

\* the reference environments of the registry
RegistryEnvs ==
    {NoEnv,
     [NoEnv EXCEPT !.known = TRUE],
     [known |-> TRUE, exists |-> TRUE, env_type |-> "CONDA_ONLY", python |-> <<"3.7">>,
      deps |-> <<TStr("conda", <<"python", "==", "3.7">>)>>,
      sources |-> <<TStr("conda", <<"conda-forge">>)>>],
     [known |-> TRUE, exists |-> TRUE, env_type |-> "PIP_ONLY", python |-> <<"3.7">>,
      deps |-> <<TStr("pip", <<"requests", "==", "2">>)>>, sources |-> <<>>],
     [known |-> TRUE, exists |-> TRUE, env_type |-> "CONDA_ONLY", python |-> None,
      deps |-> <<>>, sources |-> <<>>],
     [known |-> TRUE, exists |-> TRUE, env_type |-> "PIP_ONLY", python |-> None,
      deps |-> <<>>, sources |-> <<>>]}

\* what get_pinned_conda_libs returns
PinnedLibs == {<<>>, <<<<"boto3", "1">>>>}

InitResolve ==
    /\ GateIdle
    /\ SubIdle
    /\ self_cls \in {"conda", "pip"}
    /\ \E ds \in SeqsUpTo(Declarations(self_cls), MaxEntries),
          py \in {None, <<"3.9">>}, bpy \in {None, <<"3.8.0">>},
          nm \in {None, <<"x">>}, bnm \in {None, <<"x">>} :
           LET l == Declare([local |-> [Defaults EXCEPT !.python = py, !.name = nm],
                             base |-> [Defaults EXCEPT !.python = bpy, !.name = bnm]], ds)
           IN  /\ ValidAttributes(l.local)
               /\ self_attributes = l.local
               /\ self_base_attributes = l.base
    /\ conda_registry \in
           IF PossibleName(self_attributes, self_base_attributes) = None
               THEN {NoEnv} ELSE RegistryEnvs
    /\ pinned_conda_libs \in PinnedLibs
    /\ self_memo = NoMemo
    /\ collab_calls = NoCalls
    /\ resolve_log = <<>>
    /\ InstanceIdle
    /\ LifeIdle

\* One call of self._resolve_deps_sources() (directly or through step_deps,
\* source_deps, non_base_step_deps, non_base_source_deps or env_type).
CallResolveDepsSources ==
    /\ Len(resolve_log) < MaxResolveCalls
    /\ \E order \in Orders(Range(FindAll(PossibleName(self_attributes,
                                                       self_base_attributes)))) :
       \E r \in {ResolveDepsSources(self_cls, self_attributes, self_base_attributes,
                                    conda_registry, pinned_conda_libs, self_memo,
                                    From(self_attributes, self_base_attributes,
                                         order, os_environ, addl_env))} :
           /\ self_memo' = r.memo
           /\ collab_calls' = [pin |-> collab_calls.pin + r.calls.pin,
                               python |-> collab_calls.python + r.calls.python,
                               registry |-> collab_calls.registry + r.calls.registry]
           /\ resolve_log' = Append(resolve_log,
                                    [status |-> r.status, exc |-> r.exc, ret |-> r.ret,
                                     calls |-> r.calls, env_type |-> r.memo.env_type])
    /\ UNCHANGED <<self_cls, self_attributes, self_base_attributes, conda_registry,
                   pinned_conda_libs>>
    /\ UNCHANGED gateVars
    /\ UNCHANGED subVars
    /\ UNCHANGED instVars
    /\ UNCHANGED lifeVars

NextResolve == CallResolveDepsSources

SpecResolve == InitResolve /\ [][NextResolve]_vars

\* ---------------------------------------------------------------------------
\* Claims about _resolve_deps_sources
\* ---------------------------------------------------------------------------

\* C10: _resolve_deps_sources is memoized: after one successful call on an
\* instance, every later call returns the stored four lists and makes no
\* call to the pin source, the python-version resolver or the registry,
\* whatever the attributes, an empty computed list counting as filled.
Claim_C10 ==
    \A i, j \in DOMAIN resolve_log :
        (i < j /\ resolve_log[i].status = "returned")
            => /\ resolve_log[j].status = "returned"
               /\ resolve_log[j].ret = resolve_log[i].ret
               /\ resolve_log[j].calls = NoCalls

\* C11: with unchanged attributes and deterministic collaborators, two
\* successive calls of _resolve_deps_sources that return give equal
\* four-tuples (same entries, same order), and env_type read after either
\* call is the same.
Thm_C11 ==
    \A i, j \in DOMAIN resolve_log :
        (resolve_log[i].status = "returned" /\ resolve_log[j].status = "returned")
            => /\ resolve_log[i].ret = resolve_log[j].ret
               /\ resolve_log[i].env_type = resolve_log[j].env_type

\* two calls returned, the second one recomputed lists that hold entries of
\* both categories
Wit_C11 ==
    /\ Len(resolve_log) = 2
    /\ resolve_log[1].status = "returned"
    /\ resolve_log[2].status = "returned"
    /\ resolve_log[2].calls # NoCalls
    /\ \E k, n \in DOMAIN resolve_log[2].ret[1] :
           /\ resolve_log[2].ret[1][k].category = "conda"
           /\ resolve_log[2].ret[1][n].category = "pip"
    /\ resolve_log[1].ret = resolve_log[2].ret

\* d[k]
DictValue(d, k) == d[CHOOSE i \in DOMAIN d : d[i][1] = k][2]

\* the dependency maps of the class of the instance
DepAttrs(cls) == IF cls = "conda" THEN {"libraries", "pip_packages"} ELSE {"packages"}

\* a call has computed the lists from the attributes
Recomputed(call) == call.status = "returned" /\ call.calls # NoCalls

\* C12: in the merged user dependency map (libraries, pip_packages, or
\* packages of the pip decorator) every key declared at the local layer has
\* the local version even when the base layer declares the same key, and
\* every key declared only at the base layer is kept with its base version.
Thm_C12 ==
    (resolve_log # <<>> /\ Recomputed(resolve_log[Len(resolve_log)]))
        => \A a \in DepAttrs(self_cls) :
               LET local_map == self_attributes[a]
                   base_map == self_base_attributes[a]
                   user_deps == UserDeps(base_map, local_map)
               IN  /\ Keys(user_deps) = Keys(local_map) \cup Keys(base_map)
                   /\ \A k \in Keys(local_map) :
                          DictValue(user_deps, k) = DictValue(local_map, k)
                   /\ \A k \in Keys(base_map) \ Keys(local_map) :
                          DictValue(user_deps, k) = DictValue(base_map, k)

\* a key declared with different versions at the two layers: the entry
\* returned carries the local version, the base one is gone
Wit_C12 ==
    /\ resolve_log # <<>>
    /\ Recomputed(resolve_log[1])
    /\ \E a \in DepAttrs(self_cls) :
       \E k \in Keys(self_attributes[a]) \cap Keys(self_base_attributes[a]) :
           LET lv == DictValue(self_attributes[a], k)
               bv == DictValue(self_base_attributes[a], k)
               cat == IF a = "libraries" THEN "conda" ELSE "pip"
               vals == {e.value : e \in {x \in Range(resolve_log[1].ret[1]) :
                                             x.category = cat}}
           IN  /\ lv # bv
               /\ <<k, "==", CanonicalizeVersion(lv)>> \in vals
               /\ <<k, "==", CanonicalizeVersion(bv)>> \notin vals

\* the position of the first occurrence of x in l
FirstIndex(l, x) == CHOOSE i \in DOMAIN l : l[i] = x /\ \A j \in 1..(i - 1) : l[j] # x

\* the local list followed by the base list, for the source entries of a
\* category: channels and pip_sources of @conda, sources of @pip
DeclaredSources(cls, category, attrs, base) ==
    IF cls = "conda"
        THEN IF category = "conda" THEN attrs.channels \o base.channels
             ELSE attrs.pip_sources \o base.pip_sources
    ELSE IF category = "conda" THEN <<>> ELSE attrs.sources \o base.sources

\* the strings of the source entries of a category, in the order returned
ReturnedSources(call, category) ==
    LET es == Filter(call.ret[2], {e \in Range(call.ret[2]) : e.category = category})
    IN  [i \in DOMAIN es |-> es[i].value[1]]

Wit_C13_Order ==
    /\ resolve_log # <<>>
    /\ resolve_log[1].status = "returned"
    /\ self_cls = "conda"
    /\ self_attributes.channels = <<"c2">>
    /\ self_base_attributes.channels = <<"c1">>
    /\ ReturnedSources(resolve_log[1], "conda") = <<"c2", "c1">>

\* the step derives from a reference environment
HasReference == PossibleName(self_attributes, self_base_attributes) # None

CondaCategory(l) == {e \in Range(l) : e.category = "conda"}

\* C14: after _resolve_deps_sources, env_type is PIP_ONLY if and only if the
\* step derives from a reference environment of type PIP_ONLY and the merge
\* produced no conda-category dependency entry; otherwise it is None.
Thm_C14 ==
    \A i \in DOMAIN resolve_log :
        resolve_log[i].status = "returned"
            => /\ resolve_log[i].env_type \in {"PIP_ONLY", "None"}
               /\ resolve_log[i].env_type = "PIP_ONLY"
                      <=> /\ HasReference
                          /\ conda_registry.env_type = "PIP_ONLY"
                          /\ CondaCategory(resolve_log[i].ret[1]) = {}

\* a step on a PIP_ONLY reference that adds pip entries only: PIP_ONLY
Wit_C14 ==
    /\ resolve_log # <<>>
    /\ resolve_log[1].status = "returned"
    /\ HasReference
    /\ conda_registry.env_type = "PIP_ONLY"
    /\ resolve_log[1].ret[1] # <<>>
    /\ resolve_log[1].env_type = "PIP_ONLY"

\* a step on a PIP_ONLY reference that adds a conda entry: None
Wit_C14_None ==
    /\ resolve_log # <<>>
    /\ resolve_log[1].status = "returned"
    /\ HasReference
    /\ conda_registry.env_type = "PIP_ONLY"
    /\ CondaCategory(resolve_log[1].ret[1]) # {}
    /\ resolve_log[1].env_type = "None"

\* ResolvedEnvironment.get_req_id(deps, sources): the hash of the dependency
\* and source entries sorted by (category, value). The sorted sequence is
\* given by how many times each entry occurs.
GetReqId(deps, sources) ==
    LET l == deps \o sources
    IN  [e \in Range(l) |-> Cardinality({i \in DOMAIN l : l[i] = e})]

\* A mutant of EnvIdsReqId: the id is made of the lists as they are, in order.
EnvIdsReqId_InOrder(ret) == [e \in {ret[3] \o ret[4]} |-> 1]

\* lines 173-182: the req_id of the EnvID that env_ids returns for a step
\* that is not fetched at execution, from step_deps and source_deps
EnvIdsReqId(ret) == GetReqId(ret[3], ret[4])

\* the same items in every order
PermsOf(l) == {[i \in DOMAIN l |-> l[o[i]]] : o \in Orders(DOMAIN l)}

\* the attributes with the keys of each dependency map and the items of each
\* source list declared in every order
PermutedAttributes(attrs) ==
    {[attrs EXCEPT !.libraries = a, !.channels = b, !.pip_packages = c,
                   !.pip_sources = d, !.packages = e, !.sources = f] :
        a \in PermsOf(attrs.libraries), b \in PermsOf(attrs.channels),
        c \in PermsOf(attrs.pip_packages), d \in PermsOf(attrs.pip_sources),
        e \in PermsOf(attrs.packages), f \in PermsOf(attrs.sources)}

\* what a newly initialized instance with these attributes returns
FreshResolve(attrs, base) ==
    ResolveDepsSources(self_cls, attrs, base, conda_registry, pinned_conda_libs,
                       NoMemo, From(attrs, base, <<>>, os_environ, addl_env))

\* C15: for a step with no symbolic reference, the req_id of the EnvID of
\* env_ids is the same for any two declarations that hold the same
\* dependency and source entries in a different order, and the same for two
\* independently constructed instances with the same inputs.
Thm_C15 ==
    (~HasReference /\ resolve_log # <<>> /\ resolve_log[1].status = "returned")
        => \A attrs \in PermutedAttributes(self_attributes),
              base \in PermutedAttributes(self_base_attributes) :
               /\ FreshResolve(attrs, base).status = "returned"
               /\ EnvIdsReqId(FreshResolve(attrs, base).ret)
                      = EnvIdsReqId(resolve_log[1].ret)

\* a declaration in another order returns the entries in another order
Wit_C15 ==
    /\ ~HasReference
    /\ resolve_log # <<>>
    /\ resolve_log[1].status = "returned"
    /\ \E attrs \in PermutedAttributes(self_attributes) :
           /\ FreshResolve(attrs, self_base_attributes).ret[3] # resolve_log[1].ret[3]
           /\ EnvIdsReqId(FreshResolve(attrs, self_base_attributes).ret)
                  = EnvIdsReqId(resolve_log[1].ret)

\* the entries of a category that the pin source's libraries make
PinEntries(category) ==
    IF category = "conda" THEN Range(CondaEntries(pinned_conda_libs))
    ELSE Range(PipEntries(CondaDepsToPipDeps(pinned_conda_libs)))

\* the local dependency list of call i holds the pin source's libraries as
\* entries of category cat and not as entries of category other
PinnedAs(i, cat, other) ==
    /\ PinEntries(cat) \subseteq Range(resolve_log[i].ret[1])
    /\ PinEntries(other) \cap Range(resolve_log[i].ret[1]) = {}

\* C26 (as claimed): for a step deriving from a PIP_ONLY reference, of either
\* decorator class, the pin source's libraries are in the local dependency
\* list as pip entries and not as conda entries; for a reference of another
\* type they are there as conda entries and not as pip entries.
Claim_C26 ==
    \A i \in DOMAIN resolve_log :
        (resolve_log[i].status = "returned" /\ HasReference /\ pinned_conda_libs # <<>>)
            => IF conda_registry.env_type = "PIP_ONLY"
                   THEN PinnedAs(i, "pip", "conda")
               ELSE PinnedAs(i, "conda", "pip")

\* C26, what holds of the pip class alone
C26_PipClass == self_cls = "pip" => Claim_C26

\* the conda entries of a list that name the python package
PythonPins(l) == {e \in CondaCategory(l) : e.value[1] = "python"}

\* the python version resolved for a step with no reference (lines 594-604)
ResolvedPython ==
    FirstNotNone(<<self_attributes.python, self_base_attributes.python, PlatformPython>>)

\* C27: the local dependency list returned holds a conda entry
\* python==<version>, the canonical form of the resolved python version,
\* appended last, exactly when the step derives from no reference
\* environment; the effective lists are then the local lists, entry for
\* entry. A step deriving from a reference has no such entry in its local
\* list.
Thm_C27 ==
    \A i \in DOMAIN resolve_log :
        resolve_log[i].status = "returned" =>
            LET ret == resolve_log[i].ret
            IN  IF HasReference THEN PythonPins(ret[1]) = {}
                ELSE /\ PythonPins(ret[1]) = {PythonEntry(ResolvedPython)}
                     /\ ret[1][Len(ret[1])] = PythonEntry(ResolvedPython)
                     /\ ret[1][Len(ret[1])].value
                            = <<"python", "==", CanonicalizeVersion(ResolvedPython[1])>>
                     /\ ret[3] = ret[1]
                     /\ ret[4] = ret[2]

\* C27 witness: no reference, the python version comes from the base layer
\* and is pinned in canonical form after the declared entries.
Wit_C27 ==
    /\ resolve_log # <<>> /\ resolve_log[1].status = "returned"
    /\ ~HasReference
    /\ self_attributes.python = None
    /\ self_base_attributes.python = <<"3.8.0">>
    /\ Len(resolve_log[1].ret[1]) >= 2
    /\ resolve_log[1].ret[1][Len(resolve_log[1].ret[1])]
           = TStr("conda", <<"python", "==", "3.8">>)
    /\ resolve_log[1].ret[3] = resolve_log[1].ret[1]

\* C27 witness: a reference environment, declared entries at the base layer,
\* no python pin in the local list, and effective lists that differ from the
\* local ones.
Wit_C27_Reference ==
    /\ resolve_log # <<>> /\ resolve_log[1].status = "returned"
    /\ HasReference
    /\ resolve_log[1].ret[1] # <<>>
    /\ PythonPins(resolve_log[1].ret[1]) = {}
    /\ resolve_log[1].ret[3] # resolve_log[1].ret[1]

\* What the code does: a later call returns equal lists, and is free of
\* collaborator calls when none of the four stored lists is empty.
Memoized_WhenNoneEmpty ==
    \A i, j \in DOMAIN resolve_log :
        (i < j /\ resolve_log[i].status = "returned")
            => /\ resolve_log[j].status = "returned"
               /\ resolve_log[j].ret = resolve_log[i].ret
               /\ (\A k \in 1..4 : resolve_log[i].ret[k] # <<>>)
                      => resolve_log[j].calls = NoCalls

\* two successful calls, each of the four lists non-empty, the second free
Memoized_Reached ==
    /\ Len(resolve_log) = 2
    /\ resolve_log[1].status = "returned"
    /\ \A k \in 1..4 : resolve_log[1].ret[k] # <<>>
    /\ resolve_log[1].calls.pin > 0
    /\ resolve_log[2].calls = NoCalls


\* ---------------------------------------------------------------------------
\* One instance: the attribute checks of step_init, then its reads
\* ---------------------------------------------------------------------------
\* Largest number of attribute values set in the two layers.
MaxSettings == 3
\* Largest number of reads made on the instance.
MaxReads == 1

\* One attribute given a value at one layer: <<layer, attribute, value>>
Settings(cls) ==
    {<<l, "name", v>> : l \in Layers, v \in {<<"x">>, <<>>}}
    \cup {<<l, "pathspec", <<"p">>>> : l \in Layers}
    \cup {<<"local", "python", <<"3.9">>>>, <<"base", "python", <<"3.8">>>>}
    \cup {<<l, f, <<v>>>> : l \in Layers, f \in FlagAttrs, v \in {"True", "False"}}
    \cup (IF cls = "conda"
              THEN {<<l, "libraries", <<"numpy", "1">>>> : l \in Layers}
                   \cup {<<l, "pip_packages", <<"requests", "1.0">>>> : l \in Layers}
                   \cup {<<l, "channels", <<"c1">>>> : l \in Layers}
          ELSE {<<l, "packages", <<"numpy", "1.0">>>> : l \in Layers}
               \cup {<<l, "sources", <<"c1">>>> : l \in Layers})

InitInstance ==
    /\ GateIdle
    /\ SubIdle
    /\ self_cls \in {"conda", "pip"}
    /\ \E ds \in SeqsUpTo(Settings(self_cls), MaxSettings) :
           LET l == Declare([local |-> Defaults, base |-> Defaults], ds)
           IN  /\ self_attributes = l.local
               /\ self_base_attributes = l.base
    /\ conda_registry \in
           IF PossibleName(self_attributes, self_base_attributes) = None
               THEN {NoEnv} ELSE {e \in RegistryEnvs : e.env_type # "PIP_ONLY"}
    /\ pinned_conda_libs = <<>>
    /\ self_memo = NoMemo
    /\ collab_calls = NoCalls
    /\ resolve_log = <<>>
    /\ InstanceIdle
    /\ LifeIdle

\* step_init once the gate is passed and _base_attributes is set (lines
\* 319-364): the fields are reset and the attributes are checked.
StepInitAttributes ==
    /\ step_init_exc = "pending"
    /\ step_init_exc' = StepInitChecks(self_attributes, self_base_attributes)
    /\ self_memo' = NoMemo
    /\ UNCHANGED <<self_cls, self_attributes, self_base_attributes, conda_registry,
                   pinned_conda_libs, collab_calls, resolve_log, read_log>>
    /\ UNCHANGED gateVars
    /\ UNCHANGED subVars
    /\ UNCHANGED lifeVars

\* is_enabled(ubf_context) on the initialized instance
CallIsEnabled(ubf_context) ==
    /\ step_init_exc = "none"
    /\ Len(read_log) < MaxReads
    /\ read_log' = Append(read_log,
                          [NoRead EXCEPT !.op = "is_enabled", !.arg = ubf_context,
                               !.enabled = IsEnabled(self_cls, self_attributes,
                                                     self_base_attributes, ubf_context)])
    /\ UNCHANGED <<step_init_exc, resolveVars>>
    /\ UNCHANGED gateVars
    /\ UNCHANGED subVars
    /\ UNCHANGED lifeVars

\* _python_version() on the initialized instance
CallPythonVersion ==
    /\ step_init_exc = "none"
    /\ Len(read_log) < MaxReads
    /\ \E order \in Orders(Range(FindAll(PossibleName(self_attributes,
                                                       self_base_attributes)))) :
       \E r \in {PythonVersionOutcome(self_attributes, self_base_attributes,
                                      From(self_attributes, self_base_attributes,
                                           order, os_environ, addl_env),
                                      self_memo.from_env, conda_registry)} :
           /\ read_log' = Append(read_log,
                   [NoRead EXCEPT !.op = "_python_version",
                        !.status = IF r.exc = "none" THEN "returned" ELSE "raised",
                        !.exc = r.exc, !.version = r.value, !.cached = r.present])
           /\ self_memo' = [self_memo EXCEPT !.from_env = r.present]
           /\ collab_calls' = [collab_calls EXCEPT !.registry = @ + r.lookups]
    /\ UNCHANGED <<step_init_exc, self_cls, self_attributes, self_base_attributes,
                   conda_registry, pinned_conda_libs, resolve_log>>
    /\ UNCHANGED gateVars
    /\ UNCHANGED subVars
    /\ UNCHANGED lifeVars

\* a read of the from_env property on the initialized instance
ReadFromEnv ==
    /\ step_init_exc = "none"
    /\ Len(read_log) < MaxReads
    /\ \E order \in Orders(Range(FindAll(PossibleName(self_attributes,
                                                       self_base_attributes)))) :
       \E r \in {FromEnv(From(self_attributes, self_base_attributes,
                               order, os_environ, addl_env),
                          self_memo.from_env, conda_registry)} :
           /\ read_log' = Append(read_log,
                   [NoRead EXCEPT !.op = "from_env",
                        !.status = IF r.exc = "none" THEN "returned" ELSE "raised",
                        !.exc = r.exc, !.cached = r.present])
           /\ self_memo' = [self_memo EXCEPT !.from_env = r.present]
           /\ collab_calls' = [collab_calls EXCEPT !.registry = @ + r.lookups]
    /\ UNCHANGED <<step_init_exc, self_cls, self_attributes, self_base_attributes,
                   conda_registry, pinned_conda_libs, resolve_log>>
    /\ UNCHANGED gateVars
    /\ UNCHANGED subVars
    /\ UNCHANGED lifeVars

NextInstance ==
    \/ StepInitAttributes
    \/ \E ubf_context \in UbfContexts : CallIsEnabled(ubf_context)
    \/ CallPythonVersion
    \/ ReadFromEnv

SpecInstance == InitInstance /\ [][NextInstance]_vars

\* ---------------------------------------------------------------------------
\* Claims about the attribute checks and the reads
\* ---------------------------------------------------------------------------

Checked == step_init_exc # "pending"

\* an attribute that holds something: a non-empty map, list or string, a
\* flag that is True
NonEmpty(attrs, k) == TruthyAttr(attrs, k)

\* C16: step_init of an instance that passes the gate fails with an
\* invalid-configuration error whenever the local layer sets name or
\* pathspec together with any other non-empty attribute other than
\* fetch_at_exec (a dependency map, a source list, python).
Thm_C16 ==
    (/\ Checked
     /\ NonEmpty(self_attributes, "name") \/ NonEmpty(self_attributes, "pathspec")
     /\ \E k \in (DictAttrs \cup ListAttrs \cup {"python", "disabled"}) :
            NonEmpty(self_attributes, k))
        => step_init_exc # "none"

\* name with a dependency map: step_init raised
Wit_C16 ==
    /\ self_attributes.name = <<"x">>
    /\ self_attributes.libraries = <<<<"numpy", "1">>>>
    /\ self_attributes.fetch_at_exec = "None"
    /\ self_base_attributes = Defaults
    /\ step_init_exc = "name or pathspec along with other attributes"

\* fetch_at_exec resolved from the local value, else the base value
FetchAtExecResolved ==
    IF self_attributes.fetch_at_exec # "None" THEN self_attributes.fetch_at_exec = "True"
    ELSE self_base_attributes.fetch_at_exec = "True"

\* neither layer supplies a name or a pathspec
NoReferenceDeclared ==
    \A attrs \in {self_attributes, self_base_attributes} :
        /\ attrs.name \in {None, <<>>}
        /\ attrs.pathspec \in {None, <<>>}

\* the attribute is given a value, whatever the value
IsSet(attrs, k) == attrs[k] # Defaults[k]

\* C17 as stated: step_init fails whenever fetch_at_exec resolves to true
\* and neither layer supplies name or pathspec, and whenever fetch_at_exec
\* resolves to true and the local or the base layer sets any attribute other
\* than name, pathspec and fetch_at_exec.
Claim_C17 ==
    (/\ Checked
     /\ FetchAtExecResolved
     /\ \/ NoReferenceDeclared
        \/ \E attrs \in {self_attributes, self_base_attributes} :
           \E k \in DOMAIN attrs \ {"name", "pathspec", "fetch_at_exec"} : IsSet(attrs, k))
        => step_init_exc # "none"

\* C17, amended: step_init fails whenever fetch_at_exec resolves to true and
\* neither layer supplies name or pathspec, and whenever fetch_at_exec
\* resolves to true and the local or the base layer gives a true value (a
\* non-empty map, list or string, disabled=True) to an attribute other than
\* name, pathspec and fetch_at_exec; disabled=False is accepted.
Thm_C17 ==
    (/\ Checked
     /\ FetchAtExecResolved
     /\ \/ NoReferenceDeclared
        \/ \E attrs \in {self_attributes, self_base_attributes} :
           \E k \in DOMAIN attrs \ {"name", "pathspec", "fetch_at_exec"} :
               NonEmpty(attrs, k))
        => step_init_exc # "none"

\* fetch_at_exec from the base layer, a name, and a base attribute: raised
Wit_C17 ==
    /\ self_attributes.fetch_at_exec = "None"
    /\ self_base_attributes.fetch_at_exec = "True"
    /\ self_attributes.name = <<"x">>
    /\ \E k \in (DictAttrs \cup ListAttrs \cup {"python"}) :
           NonEmpty(self_base_attributes, k)
    /\ step_init_exc = "fetch_at_exec with other than a pure named environment"

\* fetch_at_exec and no reference at all: raised
Wit_C17_NoName ==
    /\ FetchAtExecResolved
    /\ NoReferenceDeclared
    /\ step_init_exc = "fetch_at_exec and no environment to fetch"

\* fetch_at_exec, a name and disabled=False: accepted
Wit_C17_Accepted ==
    /\ FetchAtExecResolved
    /\ self_attributes.name = <<"x">>
    /\ self_base_attributes.disabled = "False"
    /\ step_init_exc = "none"

Wit_C18_Implicit ==
    /\ read_log # <<>>
    /\ read_log[1].op = "is_enabled"
    /\ read_log[1].arg = "None"
    /\ self_attributes.disabled = "None"
    /\ self_attributes.python # None
    /\ self_base_attributes.disabled = "True"
    /\ read_log[1].enabled

\* nothing set locally, the base says disabled: disabled
Wit_C18_Inherited ==
    /\ read_log # <<>>
    /\ read_log[1].op = "is_enabled"
    /\ read_log[1].arg = "None"
    /\ self_attributes.disabled = "None"
    /\ self_attributes.channels # <<>>
    /\ self_base_attributes.disabled = "True"
    /\ ~read_log[1].enabled


\* the python version of the reference environment, None when the step has
\* no reference or the version cannot be had
ReferencePython ==
    IF HasReference /\ conda_registry.known /\ conda_registry.exists
        THEN conda_registry.python ELSE None

\* C19: _python_version returns the first set value of the chain local
\* python, base python, python version of the reference environment,
\* running interpreter's version; a value set at a higher level is the
\* result whatever the lower levels are, and the chain yields a value when
\* a higher level is set even when a lower-level fallback cannot be
\* computed (the reference is unknown, or lists no python package).
Claim_C19 ==
    \A i \in DOMAIN read_log :
        (/\ read_log[i].op = "_python_version"
         /\ self_attributes.python # None \/ self_base_attributes.python # None)
            => /\ read_log[i].status = "returned"
               /\ read_log[i].version =
                      FirstNotNone(<<self_attributes.python, self_base_attributes.python,
                                     ReferencePython, PlatformPython>>)

\* What the code does: the chain gives its first set value when the
\* reference, if any, can be read and lists a python package, and raises
\* otherwise, whatever the higher levels hold.
PythonVersion_Eager ==
    \A i \in DOMAIN read_log :
        read_log[i].op = "_python_version"
            => IF HasReference /\ ReferencePython = None
                   THEN read_log[i].status = "raised"
               ELSE /\ read_log[i].status = "returned"
                    /\ read_log[i].version =
                           FirstNotNone(<<self_attributes.python,
                                          self_base_attributes.python,
                                          ReferencePython, PlatformPython>>)

\* python set locally, a reference that lists no python package: raised
PythonVersion_Raised ==
    /\ read_log # <<>>
    /\ read_log[1].op = "_python_version"
    /\ self_attributes.python # None
    /\ conda_registry.known /\ conda_registry.exists
    /\ read_log[1].exc = "cannot determine python version"

\* C20: when the reference name is set, from_env raises an unknown-
\* environment error if the registry has no EnvID for the alias, and an
\* environment-not-for-platform error if an EnvID is found but the registry
\* returns no environment for it; in both cases nothing is cached on the
\* instance and no value is returned.
Thm_C20 ==
    \A i \in DOMAIN read_log :
        (read_log[i].op = "from_env" /\ HasReference)
            => /\ ~conda_registry.known
                      => /\ read_log[i].status = "raised"
                         /\ read_log[i].exc = "not a known environment"
                         /\ ~read_log[i].cached
                         /\ ~self_memo.from_env
               /\ (conda_registry.known /\ ~conda_registry.exists)
                      => /\ read_log[i].status = "raised"
                         /\ read_log[i].exc = "does not exist for arch"
                         /\ ~read_log[i].cached
                         /\ ~self_memo.from_env

\* an alias the registry knows, with no environment for the architecture
Wit_C20 ==
    /\ read_log # <<>>
    /\ read_log[1].op = "from_env"
    /\ HasReference
    /\ conda_registry.known
    /\ ~conda_registry.exists
    /\ read_log[1].exc = "does not exist for arch"
    /\ collab_calls.registry = 2

\* an alias the registry does not know
Wit_C20_Unknown ==
    /\ read_log # <<>>
    /\ read_log[1].op = "from_env"
    /\ HasReference
    /\ ~conda_registry.known
    /\ read_log[1].exc = "not a known environment"
    /\ collab_calls.registry = 1

\* an environment the registry holds is returned and cached
Wit_C20_Cached ==
    /\ read_log # <<>>
    /\ read_log[1].op = "from_env"
    /\ read_log[1].status = "returned"
    /\ self_memo.from_env

\* ---------------------------------------------------------------------------
\* The lifecycle of one instance: step_init, runtime_init,
\* runtime_task_created, runtime_step_cli and reads of from_env
\* ---------------------------------------------------------------------------
\* Largest number of tasks the runtime creates for the step.
MaxTasks == 2
\* Largest number of reads of from_env made from outside the hooks.
MaxLifeReads == 2

\* d[k] = v on a dict held as a function
SetVar(d, k, v) == [x \in DOMAIN d \cup {k} |-> IF x = k THEN v ELSE d[x]]

\* the variables of the deferred context
RunIdVar == <<"METAFLOW_RUN_ID">>
RunIdBaseVar == <<"METAFLOW_RUN_ID_BASE">>
StepNameVar == <<"METAFLOW_STEP_NAME">>
TaskIdVar == <<"METAFLOW_TASK_ID">>

\* str.upper() on the characters of the model
UpperChar(c) == IF c = "a" THEN "A" ELSE IF c = "b" THEN "B" ELSE c

\* line 455: "METAFLOW_INIT_%s" % var.upper().replace("-", "_")
InitVarName(var) ==
    <<"METAFLOW_INIT_">>
        \o StrReplace([i \in DOMAIN var |-> UpperChar(var[i])], <<"-">>, <<"_">>)

\* flow._get_parameters(): the names of the parameters of the flow
FlowParameters == {<<"a", "-", "b">>}

\* name = "conda" (CondaStepDecorator) and name = "pip" (PipStepDecorator)
DecoName(cls) == <<cls>>

\* lines 431-435: what runtime_init leaves in _env_for_fetch
RuntimeInit(cls, attrs, base, env, run_id) ==
    IF IsEnabled(cls, attrs, base, "None") /\ IsFetchAtExec(attrs, base, "None")
        THEN SetVar(SetVar(SetVar(env, RunIdVar, run_id), RunIdBaseVar, run_id),
                    StepNameVar, DecoName(cls))
    ELSE env

\* conda.env_id_from_alias and conda.environment for an alias
Lookup(registry, alias) == IF alias \in DOMAIN registry THEN registry[alias] ELSE NoEnv

RECURSIVE WithLoaders(_, _, _)
\* lines 453-460: a loader is stored for every parameter of the flow; called
\* at substitution time it gives str(_param.load_parameter(_ds[_var])), the
\* value of the parameter in the datastore of the parent task
WithLoaders(env, params, loaded) ==
    IF params = {} THEN env
    ELSE LET var == CHOOSE v \in params : TRUE
         IN  WithLoaders(SetVar(env, InitVarName(var), loaded), params \ {var}, loaded)

\* lines 437-474: runtime_task_created; task_id is the argument of the hook,
\* input_path is input_paths[0] split at "/", and line 449 binds task_id
\* again, to the third part of input_path (parent_task_id here)
RuntimeTaskCreated(cls, attrs, base, env, registry, task_id, input_path, loaded, ubf_context, order, environ) ==
    IF ~(IsEnabled(cls, attrs, base, ubf_context) /\ IsFetchAtExec(attrs, base, ubf_context))
        THEN [exc |-> "none", env |-> env, substituted |-> FALSE, alias |-> None,
              found |-> NoEnv, lookups |-> 0]
    ELSE LET parent_task_id == input_path[3]
             env1 == SetVar(WithLoaders(env, FlowParameters, loaded), TaskIdVar,
                            parent_task_id)
             alias == From(attrs, base, order, environ, env1)
             substituted == PossibleName(attrs, base) # None
         IN  IF alias.status = "raised"
                 THEN [exc |-> "could not find envvar", env |-> env1,
                       substituted |-> substituted, alias |-> None, found |-> NoEnv,
                       lookups |-> 0]
             ELSE IF ~Lookup(registry, alias.value).known
                 THEN [exc |-> "cannot find environment", env |-> env1,
                       substituted |-> substituted, alias |-> alias.value,
                       found |-> NoEnv, lookups |-> 1]
             ELSE [exc |-> "none", env |-> env1, substituted |-> substituted,
                   alias |-> alias.value, found |-> Lookup(registry, alias.value),
                   lookups |-> 1]

\* lines 234-255 on the instance: a read of from_env; kept is self._from_env
\* before the read (NoEnv for None), env is what the read returns and what
\* self._from_env is after it
ReadOfFromEnv(alias, kept, registry) ==
    LET entry == IF kept # NoEnv THEN kept
                 ELSE IF alias.status = "returned" THEN Lookup(registry, alias.value)
                 ELSE NoEnv
        fe == FromEnv(alias, kept # NoEnv, entry)
    IN  [exc |-> fe.exc, lookups |-> fe.lookups,
         env |-> IF fe.exc = "none" /\ fe.present THEN entry
                 ELSE IF alias.status = "returned" /\ alias.value = None THEN kept
                 ELSE NoEnv]

\* self._from_env once from_env is read: kept, or what the registry holds for
\* the alias
EntryOf(alias, kept, registry) ==
    IF kept # NoEnv THEN kept
    ELSE IF alias.status = "returned" THEN Lookup(registry, alias.value)
    ELSE NoEnv

\* lines 163-182 of env_ids, r being the outcome of the reads of step_deps
\* and source_deps of lines 159-162 and entry what from_env gives them
EnvIdsFrom(attrs, base, alias, memo, registry, entry, r) ==
    LET kept1 == IF r.memo.from_env THEN entry ELSE NoEnv
        lookups1 == IF r.calls = NoCalls THEN 0
                    ELSE IF r.status = "returned"
                        THEN r.calls.registry - B2N(r.memo.from_env)
                    ELSE r.calls.registry
        read1 == ~AllFilled(memo)
    IN  IF r.status = "raised"
            THEN [exc |-> r.exc, published |-> "none", kept |-> kept1, memo |-> r.memo,
                  lookups |-> lookups1, read_from_env |-> read1]
        ELSE IF IsFetchAtExec(attrs, base, "None")
            THEN LET fe == ReadOfFromEnv(alias, kept1, registry)
                 IN  IF fe.exc # "none"
                         THEN [exc |-> fe.exc, published |-> "none", kept |-> fe.env,
                               memo |-> [r.memo EXCEPT !.from_env = (fe.env # NoEnv)],
                               lookups |-> lookups1 + fe.lookups, read_from_env |-> TRUE]
                     ELSE IF fe.env = NoEnv
                         THEN [exc |-> "AssertionError", published |-> "none",
                               kept |-> NoEnv, memo |-> r.memo,
                               lookups |-> lookups1 + fe.lookups, read_from_env |-> TRUE]
                     ELSE [exc |-> "none", published |-> "from_env", kept |-> fe.env,
                           memo |-> [r.memo EXCEPT !.from_env = TRUE],
                           lookups |-> lookups1 + fe.lookups, read_from_env |-> TRUE]
        ELSE [exc |-> "none", published |-> "_default", kept |-> kept1, memo |-> r.memo,
              lookups |-> lookups1, read_from_env |-> read1]

\* lines 155-182: env_ids. The debug message of lines 159-162 reads step_deps
\* and source_deps first, whatever the step; the later reads of the two
\* properties find the same fields and from_env kept, and are not repeated here.
EnvIds(cls, attrs, base, alias, kept, memo, registry, pinned) ==
    EnvIdsFrom(attrs, base, alias, memo, registry, EntryOf(alias, kept, registry),
               ResolveDepsSources(cls, attrs, base, EntryOf(alias, kept, registry), pinned,
                                  [memo EXCEPT !.from_env = (kept # NoEnv)], alias))

\* A mutant of CliEnvAt: _METAFLOW_CONDA_ENV is written before env_id is read.
CliEnvAt_WrittenFirst(publish, line) ==
    (IF publish THEN <<"_METAFLOW_CONDA_ENV">> ELSE <<>>)
        \o (IF line >= 523 THEN <<"PYTHONPATH">> ELSE <<>>)

\* lines 498 and 523: the keys runtime_step_cli has written in cli_args.env
\* when it stops at a line; publish is the condition of line 486
CliEnvAt(publish, line) ==
    (IF publish /\ line >= 498 THEN <<"_METAFLOW_CONDA_ENV">> ELSE <<>>)
        \o (IF line >= 523 THEN <<"PYTHONPATH">> ELSE <<>>)

\* what a call of runtime_step_cli that stops at a line has done
CliOutcome(exc, publish, line, entrypoint, e) ==
    [exc |-> exc, cli_env |-> CliEnvAt(publish, line), entrypoint |-> entrypoint,
     line |-> line,
     published |-> IF publish /\ line >= 498 THEN e.published ELSE "none",
     kept |-> e.kept, memo |-> e.memo, lookups |-> e.lookups,
     read_from_env |-> e.read_from_env]

\* lines 486-529 of runtime_step_cli, publish being the condition of line 486
\* and e the outcome of the read of self.env_id at line 490
StepCliFrom(enabled, is_remote, default_known, python_found, publish, e) ==
    IF publish /\ e.exc # "none" THEN CliOutcome(e.exc, publish, 490, "python", e)
    ELSE IF publish /\ e.published = "_default" /\ ~default_known
        THEN CliOutcome("AttributeError", publish, 492, "python", e)
    ELSE IF ~enabled \/ is_remote THEN CliOutcome("none", publish, 501, "python", e)
    ELSE IF ~publish THEN CliOutcome("UnboundLocalError", publish, 504, "python", e)
    ELSE IF ~python_found THEN CliOutcome("no executable found", publish, 528, "python", e)
    ELSE CliOutcome("none", publish, 529, "conda python", e)

\* lines 476-529: runtime_step_cli. default_known says whether the registry
\* holds the environment resolved for the step's own requirements,
\* python_found whether conda.python finds the interpreter of the environment.
RuntimeStepCli(cls, attrs, base, alias, kept, memo, registry, pinned, ubf_context, is_remote, default_known, python_found) ==
    StepCliFrom(IsEnabled(cls, attrs, base, ubf_context), is_remote, default_known,
                python_found,
                IsEnabled(cls, attrs, base, "ubf_task")
                    \/ IsFetchAtExec(attrs, base, ubf_context),
                IF IsEnabled(cls, attrs, base, "ubf_task")
                       \/ IsFetchAtExec(attrs, base, ubf_context)
                    THEN EnvIds(cls, attrs, base, alias, kept, memo, registry, pinned)
                    ELSE [exc |-> "none", published |-> "none", kept |-> kept,
                          memo |-> memo, lookups |-> 0, read_from_env |-> FALSE])

\* the reference environments of the registry of the lifecycle
EnvOne ==
    [known |-> TRUE, exists |-> TRUE, env_type |-> "CONDA_ONLY", python |-> <<"3.7">>,
     deps |-> <<TStr("conda", <<"python", "==", "3.7">>)>>,
     sources |-> <<TStr("conda", <<"conda-forge">>)>>]
EnvTwo ==
    [known |-> TRUE, exists |-> TRUE, env_type |-> "PIP_ONLY", python |-> <<"3.7">>,
     deps |-> <<TStr("pip", <<"requests", "==", "2">>)>>, sources |-> <<>>]
\* an alias the registry knows, for an environment it does not hold
EnvMissing == [NoEnv EXCEPT !.known = TRUE]

\* the names given to the step: plain, with the task id, with a parameter
NamePlain == <<"x">>
NameTask == <<"x">> \o Placeholder(TaskIdVar)
NameParam == <<"x">> \o Placeholder(InitVarName(<<"a", "-", "b">>))
LifeNames == {NamePlain, NameTask, NameParam}

\* the registry: what it holds for the aliases x, x1 and x2
RegistryOf(x, x1, x2) ==
    [a \in {<<"x">>, <<"x", "1">>, <<"x", "2">>} |->
        IF a = <<"x">> THEN x ELSE IF a = <<"x", "1">> THEN x1 ELSE x2]

LifeRegistries ==
    {RegistryOf(EnvOne, EnvOne, EnvTwo), RegistryOf(EnvTwo, EnvOne, NoEnv),
     RegistryOf(NoEnv, EnvMissing, EnvTwo), RegistryOf(EnvMissing, EnvTwo, EnvTwo)}

\* the attributes declared at the two layers, as sequences of settings
LifeDeclarations(cls) ==
    LET dep == <<"local", IF cls = "conda" THEN "libraries" ELSE "packages",
                 <<"numpy", "1">>>>
    IN  {<<>>, <<dep>>, <<<<"local", "disabled", <<"True">>>>>>,
         <<<<"local", "fetch_at_exec", <<"True">>>>>>}
        \cup {<<<<l, "name", n>>>> : l \in Layers, n \in LifeNames}
        \cup {<<<<l, "name", n>>, <<f, "fetch_at_exec", <<"True">>>>>> :
                 l \in Layers, f \in Layers, n \in LifeNames}
        \cup {<<<<"base", "name", n>>, dep>> : n \in LifeNames}
        \cup {<<<<l, "name", NamePlain>>, <<f, "fetch_at_exec", <<"True">>>>,
                <<g, "disabled", <<v>>>>>> :
                 l \in Layers, f \in Layers, g \in Layers, v \in {"True", "False"}}
        \cup {<<<<l, "name", <<>>>>, <<"base", "fetch_at_exec", <<"True">>>>>> :
                 l \in Layers}

\* run_id of runtime_init
RunIds == {<<"r">>, <<"s">>}

\* what runtime_task_created is given for a task: its task_id, input_paths[0]
\* split at "/", and what the loaders read in the datastore of the parent task
TaskInputs ==
    {[task_id |-> <<"3">>, input_path |-> <<<<"r">>, <<"start">>, <<"1">>>>,
      loaded |-> <<"1">>],
     [task_id |-> <<"4">>, input_path |-> <<<<"r">>, <<"start">>, <<"2">>>>,
      loaded |-> <<"2">>]}

InitLife ==
    /\ GateIdle
    /\ SubIdle
    /\ InstanceIdle
    /\ self_cls \in {"conda", "pip"}
    /\ \E ds \in LifeDeclarations(self_cls) :
           LET l == Declare([local |-> Defaults, base |-> Defaults], ds)
           IN  /\ self_attributes = l.local
               /\ self_base_attributes = l.base
    /\ conda_registry = NoEnv
    /\ pinned_conda_libs = <<>>
    /\ self_memo = NoMemo
    /\ collab_calls = NoCalls
    /\ resolve_log = <<>>
    /\ self_env_for_fetch = <<>>
    /\ self_from_env = NoEnv
    /\ self_is_remote \in BOOLEAN
    /\ life_registry \in
           IF PossibleName(self_attributes, self_base_attributes) = None
               THEN {RegistryOf(NoEnv, NoEnv, NoEnv)} ELSE LifeRegistries
    /\ life_phase = "new"
    /\ life_hist = NoHist
    /\ life_last = NoLifeCall

\* what the hooks leave alone
LifeFrame ==
    /\ UNCHANGED <<self_cls, self_attributes, self_base_attributes, conda_registry,
                   pinned_conda_libs, collab_calls, resolve_log>>
    /\ UNCHANGED <<self_is_remote, life_registry>>
    /\ UNCHANGED gateVars
    /\ UNCHANGED subVars
    /\ UNCHANGED instVars

\* the step derives from a name
Named == PossibleName(self_attributes, self_base_attributes) # None

\* the orders in which the placeholders of the name can be visited
NameOrders ==
    Orders(Range(FindAll(PossibleName(self_attributes, self_base_attributes))))

\* step_init once the gate is passed (lines 319-364): the fields are reset,
\* then the attributes are checked; line 341 reads the raw name.
LifeStepInit ==
    /\ life_phase \in {"new", "initialized"}
    /\ life_hist.step_inits < MaxPasses
    /\ \E exc \in {StepInitChecks(self_attributes, self_base_attributes)} :
           /\ life_phase' = IF exc = "none" THEN "initialized" ELSE "failed"
           /\ life_last' = [NoLifeCall EXCEPT !.op = "step_init", !.exc = exc,
                                !.step_inits = life_hist.step_inits + 1]
    /\ self_from_env' = NoEnv
    /\ self_memo' = NoMemo
    /\ self_env_for_fetch' = <<>>
    /\ life_hist' = [life_hist EXCEPT !.step_inits = @ + 1, !.substituted = FALSE]
    /\ LifeFrame

\* runtime_init(flow, graph, package, run_id)
LifeRuntimeInit(run_id) ==
    /\ life_phase = "initialized"
    /\ self_env_for_fetch' = RuntimeInit(self_cls, self_attributes, self_base_attributes,
                                         self_env_for_fetch, run_id)
    /\ life_phase' = "runtime"
    /\ life_last' = [NoLifeCall EXCEPT !.op = "runtime_init",
                         !.context = self_env_for_fetch',
                         !.step_inits = life_hist.step_inits]
    /\ life_hist' = [life_hist EXCEPT !.run_id = run_id]
    /\ UNCHANGED <<self_from_env, self_memo>>
    /\ LifeFrame

\* runtime_task_created(task_datastore, task_id, split_index, input_paths,
\* is_cloned, ubf_context) for the next task of the step
LifeRuntimeTaskCreated(input, ubf_context) ==
    /\ life_phase = "runtime"
    /\ life_hist.tasks < MaxTasks
    /\ \E order \in NameOrders :
       \E r \in {RuntimeTaskCreated(self_cls, self_attributes, self_base_attributes,
                                    self_env_for_fetch, life_registry, input.task_id,
                                    input.input_path, input.loaded, ubf_context, order,
                                    os_environ)} :
           /\ self_env_for_fetch' = r.env
           /\ life_phase' = IF r.exc = "none" THEN "task_created" ELSE "failed"
           /\ life_hist' = [life_hist EXCEPT !.tasks = @ + 1,
                                !.substituted = @ \/ r.substituted,
                                !.ubf_context = ubf_context,
                                !.task_alias = r.alias, !.task_env = r.found]
           /\ life_last' = [NoLifeCall EXCEPT !.op = "runtime_task_created",
                                !.task_id = input.task_id,
                                !.ubf_context = ubf_context, !.exc = r.exc,
                                !.substituted = r.substituted,
                                !.first_substitution =
                                    r.substituted /\ ~life_hist.substituted,
                                !.context = r.env,
                                !.step_inits = life_hist.step_inits]
    /\ UNCHANGED <<self_from_env, self_memo>>
    /\ LifeFrame

\* runtime_step_cli(cli_args, retry_count, max_user_code_retries, ubf_context)
\* for the task just created; cli_args is new for the task
LifeRuntimeStepCli(default_known, python_found) ==
    /\ life_phase = "task_created"
    /\ \E order \in NameOrders :
       \E r \in {RuntimeStepCli(self_cls, self_attributes, self_base_attributes,
                                From(self_attributes, self_base_attributes, order,
                                     os_environ, self_env_for_fetch),
                                self_from_env, self_memo, life_registry,
                                pinned_conda_libs, life_hist.ubf_context,
                                self_is_remote, default_known, python_found)} :
           /\ self_from_env' = r.kept
           /\ self_memo' = r.memo
           /\ life_phase' = IF r.exc = "none" THEN "runtime" ELSE "failed"
           /\ life_hist' = [life_hist EXCEPT
                                !.substituted = @ \/ (r.read_from_env /\ Named),
                                !.returned = IF r.read_from_env /\ r.kept # NoEnv
                                                 THEN r.kept ELSE @,
                                !.returned_at = IF r.read_from_env /\ r.kept # NoEnv
                                                    THEN life_hist.step_inits ELSE @]
           /\ life_last' = [NoLifeCall EXCEPT !.op = "runtime_step_cli",
                                !.ubf_context = life_hist.ubf_context, !.exc = r.exc,
                                !.read_from_env = r.read_from_env,
                                !.from_env = IF r.read_from_env THEN r.kept ELSE NoEnv,
                                !.lookups = r.lookups,
                                !.substituted = r.read_from_env /\ Named,
                                !.first_substitution =
                                    r.read_from_env /\ Named /\ ~life_hist.substituted,
                                !.context = self_env_for_fetch,
                                !.cli_env = r.cli_env, !.entrypoint = r.entrypoint,
                                !.published = r.published, !.line = r.line,
                                !.prior = life_hist.returned,
                                !.prior_at = life_hist.returned_at,
                                !.step_inits = life_hist.step_inits]
    /\ UNCHANGED self_env_for_fetch
    /\ LifeFrame

\* a read of the from_env property from outside the hooks
LifeReadFromEnv ==
    /\ life_phase \in {"initialized", "runtime", "task_created"}
    /\ life_hist.reads < MaxLifeReads
    /\ \E order \in NameOrders :
       \E r \in {ReadOfFromEnv(From(self_attributes, self_base_attributes, order,
                                    os_environ, self_env_for_fetch),
                               self_from_env, life_registry)} :
           /\ self_from_env' = r.env
           /\ self_memo' = [self_memo EXCEPT !.from_env = (r.env # NoEnv)]
           /\ life_hist' = [life_hist EXCEPT !.reads = @ + 1,
                                !.substituted = @ \/ Named,
                                !.returned = IF r.env # NoEnv THEN r.env ELSE @,
                                !.returned_at = IF r.env # NoEnv
                                                    THEN life_hist.step_inits ELSE @]
           /\ life_last' = [NoLifeCall EXCEPT !.op = "from_env", !.exc = r.exc,
                                !.read_from_env = TRUE, !.from_env = r.env,
                                !.lookups = r.lookups, !.substituted = Named,
                                !.first_substitution = Named /\ ~life_hist.substituted,
                                !.context = self_env_for_fetch,
                                !.prior = life_hist.returned,
                                !.prior_at = life_hist.returned_at,
                                !.step_inits = life_hist.step_inits]
    /\ UNCHANGED <<self_env_for_fetch, life_phase>>
    /\ LifeFrame

NextLife ==
    \/ LifeStepInit
    \/ \E run_id \in RunIds : LifeRuntimeInit(run_id)
    \/ \E input \in TaskInputs, ubf_context \in UbfContexts :
           LifeRuntimeTaskCreated(input, ubf_context)
    \/ \E default_known, python_found \in BOOLEAN :
           LifeRuntimeStepCli(default_known, python_found)
    \/ LifeReadFromEnv

SpecLifecycle == InitLife /\ [][NextLife]_vars

\* a read of from_env (directly or inside runtime_step_cli) made after an
\* earlier read returned an environment
LaterRead == life_last.read_from_env /\ life_last.prior # NoEnv

\* C21 as stated: once from_env has returned an environment for the instance,
\* every later read, after any lifecycle calls, returns that environment and
\* asks the registry nothing.
Claim_C21 ==
    LaterRead => /\ life_last.from_env = life_last.prior
                 /\ life_last.lookups = 0

\* C21, amended: as long as step_init is not called again, every read after
\* one that returned an environment returns that environment and asks the
\* registry nothing; step_init (lines 319-326) forgets the environment.
Thm_C21 ==
    (LaterRead /\ life_last.prior_at = life_last.step_inits)
        => /\ life_last.from_env = life_last.prior
           /\ life_last.lookups = 0

\* a read for a second task, whose name substitutes to another alias, gives
\* the environment kept since the first task
Wit_C21 ==
    /\ LaterRead
    /\ life_last.prior_at = life_last.step_inits
    /\ life_last.from_env = life_last.prior
    /\ life_last.lookups = 0
    /\ life_hist.tasks = 2

\* after a second step_init the registry is asked again
Wit_C21_Reset ==
    /\ LaterRead
    /\ life_last.prior_at < life_last.step_inits
    /\ life_last.lookups > 0

\* the call of runtime_step_cli raised while resolving the EnvID of the step
\* (lines 486-492)
ResolutionRaised ==
    /\ life_last.op = "runtime_step_cli"
    /\ life_last.exc # "none"
    /\ life_last.line <= 492

\* C22: runtime_step_cli writes _METAFLOW_CONDA_ENV only once the EnvID of the
\* step is resolved to an environment of the registry; when the resolution
\* raises, nothing is written in cli_args.env and the entrypoint is unchanged.
Thm_C22 ==
    /\ (life_last.op = "runtime_step_cli"
            /\ "_METAFLOW_CONDA_ENV" \in Range(life_last.cli_env))
        => /\ life_last.published \in {"from_env", "_default"}
           /\ life_last.line >= 498
           /\ life_last.published = "from_env"
                  => (life_last.from_env.known /\ life_last.from_env.exists)
    /\ ResolutionRaised
        => (life_last.cli_env = <<>> /\ life_last.entrypoint = "python")

\* the reference of the step is not in the registry: the call raises and has
\* written nothing
Wit_C22 ==
    /\ ResolutionRaised
    /\ life_last.exc \in {"not a known environment", "does not exist for arch"}
    /\ life_last.cli_env = <<>>
    /\ life_last.entrypoint = "python"

\* the EnvID is resolved and written; the call raises later, at line 528
Wit_C22_Written ==
    /\ life_last.op = "runtime_step_cli"
    /\ life_last.exc = "no executable found"
    /\ life_last.cli_env = <<"_METAFLOW_CONDA_ENV", "PYTHONPATH">>
    /\ life_last.published = "from_env"

\* the step is deferred: fetch_at_exec resolves to true
Deferred == IsFetchAtExec(self_attributes, self_base_attributes, "None")

\* the deferred context holds the run id, the task id and a loader for every
\* parameter of the flow
ContextComplete(context) ==
    /\ RunIdVar \in DOMAIN context
    /\ TaskIdVar \in DOMAIN context
    /\ \A var \in FlowParameters : InitVarName(var) \in DOMAIN context

\* C28 as stated: for a deferred step taken through step_init, runtime_init,
\* runtime_task_created and runtime_step_cli, neither step_init nor
\* runtime_init substitutes the placeholders of the reference name, and the
\* first substitution is made by runtime_task_created, with the run id, every
\* parameter's loader and the task id in the deferred context.
Claim_C28 ==
    (Deferred /\ life_hist.reads = 0)
        => /\ life_last.op \in {"step_init", "runtime_init"} => ~life_last.substituted
           /\ life_last.first_substitution
                  => /\ life_last.op = "runtime_task_created"
                     /\ ContextComplete(life_last.context)

\* The same for the tasks that are not the control task of an unbounded
\* foreach, where it holds.
C28_OutsideControl ==
    (Deferred /\ life_hist.reads = 0 /\ life_last.ubf_context # "ubf_control")
        => /\ life_last.op \in {"step_init", "runtime_init"} => ~life_last.substituted
           /\ life_last.first_substitution
                  => /\ life_last.op = "runtime_task_created"
                     /\ ContextComplete(life_last.context)

\* runtime_task_created makes the first substitution with a complete context
C28_TaskCreatedFirst ==
    /\ Deferred
    /\ life_hist.reads = 0
    /\ life_last.op = "runtime_task_created"
    /\ life_last.first_substitution
    /\ ContextComplete(life_last.context)

\* for a control task runtime_step_cli makes the first substitution, with
\* neither the task id nor the loaders in the deferred context
C28_ControlTask ==
    /\ Deferred
    /\ life_hist.reads = 0
    /\ life_last.op = "runtime_step_cli"
    /\ life_last.ubf_context = "ubf_control"
    /\ life_last.first_substitution
    /\ ~ContextComplete(life_last.context)

\* runtime_step_cli has published the EnvID of the reference of a deferred
\* step, for a task whose reference runtime_task_created looked up
PublishedForTask ==
    /\ Deferred
    /\ life_hist.reads = 0
    /\ life_last.op = "runtime_step_cli"
    /\ life_last.published = "from_env"
    /\ life_hist.task_alias # None

\* C29 as stated: for a deferred step with several tasks whose deferred
\* contexts differ, the EnvID runtime_step_cli publishes for a task is that of
\* the environment the name, substituted with the context of that task,
\* resolves to: the one runtime_task_created looked up for that task.
Claim_C29 == PublishedForTask => life_last.from_env = life_hist.task_env

\* The same for the first task of the step, where it holds.
C29_FirstTask ==
    (PublishedForTask /\ life_hist.tasks = 1) => life_last.from_env = life_hist.task_env

\* the first task is given the environment its name resolves to
C29_FirstPublished ==
    /\ PublishedForTask
    /\ life_hist.tasks = 1
    /\ life_last.from_env = life_hist.task_env
    /\ life_last.lookups > 0

\* the second task is given the environment of the first, without a lookup,
\* while runtime_task_created found another one for it
C29_SecondTask ==
    /\ PublishedForTask
    /\ life_hist.tasks = 2
    /\ life_last.from_env # life_hist.task_env
    /\ life_last.from_env = life_last.prior
    /\ life_last.lookups = 0
    /\ life_last.exc = "none"

\* step_init has completed without error on the instance
Initialized == life_phase \in {"initialized", "runtime", "task_created"}

\* runtime_step_cli has gone past line 500 and used my_env_id
UsedMyEnvId == life_last.op = "runtime_step_cli" /\ life_last.line >= 504

\* C31: once step_init has completed without error, a step whose
\* is_fetch_at_exec() is true is enabled and has a non-empty raw reference
\* name, and runtime_step_cli never uses my_env_id without having assigned it.
Thm_C31 ==
    /\ (Initialized /\ Deferred)
        => /\ IsEnabled(self_cls, self_attributes, self_base_attributes, "None")
           /\ PossibleName(self_attributes, self_base_attributes) \notin {None, <<>>}
    /\ life_last.exc # "UnboundLocalError"
    /\ UsedMyEnvId => life_last.published \in {"from_env", "_default"}

\* a deferred step that sets disabled=False at some layer is accepted by
\* step_init, and runtime_step_cli uses the my_env_id it has assigned
Wit_C31 ==
    /\ Deferred
    /\ "False" \in {self_attributes.disabled, self_base_attributes.disabled}
    /\ UsedMyEnvId
    /\ life_last.published = "from_env"

\* a plain step that is disabled returns at line 501 for every task
Wit_C31_Disabled ==
    /\ ~Deferred
    /\ ~IsEnabled(self_cls, self_attributes, self_base_attributes, "None")
    /\ life_last.op = "runtime_step_cli"
    /\ life_last.line = 501
    /\ life_last.published = "none"

\* runtime_task_created has filled the deferred context for a task of a
\* deferred step
TaskContextFilled ==
    /\ Deferred
    /\ life_last.op = "runtime_task_created"
    /\ life_last.ubf_context # "ubf_control"

\* C32 as stated: in runtime_task_created of a deferred step the value kept
\* under METAFLOW_TASK_ID is the task_id argument of the hook, the id of the
\* task being created, and the METAFLOW_RUN_ID kept by runtime_init is the run
\* id of the current run.
Claim_C32 ==
    /\ TaskContextFilled => DictGet(life_last.context, TaskIdVar) = life_last.task_id
    /\ (Deferred /\ life_phase \in {"runtime", "task_created"})
        => DictGet(self_env_for_fetch, RunIdVar) = life_hist.run_id

\* The run id half of C32, which holds.
C32_RunId ==
    (Deferred /\ life_phase \in {"runtime", "task_created"})
        => DictGet(self_env_for_fetch, RunIdVar) = life_hist.run_id

\* METAFLOW_TASK_ID holds the id of the parent task, read in input_paths[0],
\* while the run id is that of the run
C32_ParentTaskId ==
    /\ TaskContextFilled
    /\ life_last.task_id = <<"3">>
    /\ DictGet(life_last.context, TaskIdVar) = <<"1">>
    /\ DictGet(life_last.context, RunIdVar) = <<"s">>
    /\ life_hist.run_id = <<"s">>

====
